---- MODULE Spec2Model ----
(***************************************************************************)
(* Model of TelegramBotAdapter (src/main.ts): the three handler registries,*)
(* the registration API and the three event callbacks (::bot_command,      *)
(* message:file, message:text).  A callback is cut at its await points:    *)
(* every action is the code that runs between two suspensions.             *)
(*                                                                         *)
(* Strings the code inspects character by character (message texts,       *)
(* answers, owner labels) are sequences of one-character strings; MIME     *)
(* types and conversation ids, which the code only compares, are tokens.   *)
(***************************************************************************)
EXTENDS Integers, Sequences, FiniteSets, TLC

\* ------------------------------------------------------------------ bounds
\* Registration calls made over the adapter's lifetime.
MaxRegs == 2

\* Calls of resetBot that construct a new adapter.
MaxResets == 1
\* Characters of the remote path of a file (file.file_path).
MaxPathLen == 3
\* Characters of a text given to esc on its own.
MaxTextLen == 2
\* Entries a chain may have ahead of the index of the loop walking it.
MaxAhead == 4

\* ------------------------------------------------------------ value universes
\* null / undefined: one-element sequences whose element is not a character,
\* hence different from every string.
Null == <<"null">>
Undefined == <<"undefined">>
\* An absent MIME string (msg.document.mime_type undefined, mime_type omitted).
NoMime == "undefined"

Slots == {"e1", "e2"}
\* The registering plugins: each brings its handler and its owner label.
Consumers == {[handler |-> "h1", unit |-> <<"u">>],
              [handler |-> "h2", unit |-> <<"p", "_">>]}
Answers == {Null, <<>>, <<"k", "!">>}
CmdNames == {<<"a">>, <<"b">>}
CmdTexts == {<<"/", "a">>, <<"/", "b">>, <<"/", "A">>, <<"/", "a", " ", "x">>,
             <<"/">>, Undefined}
Texts == {<<"h", "i">>}
ChatIds == {1, 2}
ConfiguredChatIds == {"", "1"}
MimeJpeg == "image/jpeg"
MimeMp4 == "video/mp4"
\* mime_type arguments of addFileHandler.
RegMimes == {NoMime, "", MimeJpeg}

\* ------------------------------------------------------------------- state
VARIABLES
    chat_id,            \* TelegramBotAdapter._chat_id
    command_handlers,   \* Map<string, entry[]>: a function on the keys present
    text_handlers,      \* entry[]
    file_handlers,      \* Map<string, entry[]>
    ev,                 \* per callback activation: where it is suspended, its locals
    calls,              \* per activation: the handler calls made, in order
    replies,            \* per activation: the ctx.reply calls made, in order
    io,                 \* per activation: classifier / transport / filesystem use
    download_dir_exists,\* fs.existsSync(download_dir)
    regs_left,          \* registration calls still to come
    lastReg,            \* arguments of the latest registration call (SpecObserved)
    thrown,             \* a handler has thrown during some dispatch
    generation,         \* TelegramBotPlugin._api: adapters constructed so far
    retired,            \* the registries of the adapters replaced by a later one
    send,               \* the sendMessage call: where it is suspended, what it sent
    input,              \* argument of a function applied on its own
    output,             \* its results so far
    settings_chatId,    \* TelegramBotPlugin.settings.chatId
    start,              \* per activation of the /start callback: where it is, its replies
    walk,               \* one loop over a chain, seen by the entries ahead of its index
    life                \* TelegramBotPlugin._bot, the Bot instances, the resetBot calls

vars == <<chat_id, command_handlers, text_handlers, file_handlers,
          ev, calls, replies, io, download_dir_exists, regs_left, lastReg, thrown,
          generation, retired, send, input, output, settings_chatId, start, walk,
          life>>

\* What the adapter never writes: the plugin's settings, the /start callback
\* of resetBot, the loop taken on its own, and the plugin's Bot instances.
outside == <<settings_chatId, start, walk, life>>

\* What neither the registration calls nor the event callbacks write.
rest == <<generation, retired, send, input, output, outside>>

registry == <<command_handlers, text_handlers, file_handlers>>

\* ------------------------------------------------------------ pure helpers
\* The grave accent character (the module's lexer cannot hold it in a string).
Grave == "grave"
\* The character class of esc's regular expression.
EscapeSet == {"_", "*", "[", "]", "(", ")", "~", Grave, ">", "#", "+", "-",
              "=", "|", "{", "}", ".", "!"}

\* Mutant: the regular expression lacks the g flag, so only the first match
\* is replaced.
esc_FirstMatchOnly(text) ==
    LET hits == {k \in 1..Len(text) : text[k] \in EscapeSet}
    IN  IF hits = {} THEN text
        ELSE LET k == CHOOSE h \in hits : \A g \in hits : h <= g
             IN  SubSeq(text, 1, k - 1) \o <<"\\", text[k]>>
                     \o SubSeq(text, k + 1, Len(text))

RECURSIVE esc(_)
esc(text) ==
    IF text = <<>> THEN <<>>
    ELSE (IF Head(text) \in EscapeSet THEN <<"\\", Head(text)>> ELSE <<Head(text)>>)
         \o esc(Tail(text))

\* The template literal  *${esc(unit)}:*\n${esc(answer)}  of the three reply sites.
ReplyText(unit, answer) == <<"*">> \o esc(unit) \o <<":", "*", "\n">> \o esc(answer)

\* The same template in the repository's other copy of the adapter
\* (src/unnamed/part_000):  *${element.unit}:*\n${esc(answer)}
ReplyText_part000(unit, answer) == <<"*">> \o unit \o <<":", "*", "\n">> \o esc(answer)

\* The text of the reply sent from the catch blocks.
InternalError == <<"X", " ", "I", "n", "t", "e", "r", "n", "a", "l", " ",
                   "e", "r", "r", "o", "r">>

\* JavaScript truthiness of a string | null | undefined value.
Truthy(s) == s # Null /\ s # Undefined /\ s # <<>>

\* Mutant: a MIME type is never tested for absence.
TruthyMime_Unchecked(m) == TRUE

\* The same for a MIME token.
TruthyMime(m) == m # NoMime /\ m # ""

\* Mutant: only the handler that claimed the event is answered.
ShouldReply_IfProcessed(reply) == reply.processed /\ Truthy(reply.answer)

\* if (reply.answer)
ShouldReply(reply) == Truthy(reply.answer)

\* String(ctx.chatId): the decimal representation of the numeric id.
String(n) == IF n = 1 THEN "1" ELSE IF n = 2 THEN "2" ELSE "undefined"

\* A payload field of a Message: absent, or present with its mime_type
\* (NoMime when the provider supplied none).
Absent == "absent"
EmptyMsg == [document |-> Absent, animation |-> Absent, audio |-> Absent,
             photo |-> Absent, video |-> Absent, voice |-> Absent,
             video_note |-> Absent]
Msgs == { [EmptyMsg EXCEPT !.document = MimeJpeg],
          [EmptyMsg EXCEPT !.video_note = NoMime],
          [EmptyMsg EXCEPT !.document = NoMime],
          EmptyMsg }

\* Mutant: a payload kind without a MIME string is passed over in favour of
\* the next kind present.
getFileMimeType_FallsThrough(msg) ==
    IF msg.document \notin {Absent, NoMime} THEN msg.document
    ELSE IF msg.animation \notin {Absent, NoMime} THEN msg.animation
    ELSE IF msg.audio \notin {Absent, NoMime} THEN msg.audio
    ELSE IF msg.photo # Absent THEN MimeJpeg
    ELSE IF msg.video \notin {Absent, NoMime} THEN msg.video
    ELSE IF msg.voice \notin {Absent, NoMime} THEN msg.voice
    ELSE IF msg.video_note # Absent THEN MimeMp4
    ELSE NoMime

getFileMimeType(msg) ==
    IF msg.document # Absent THEN msg.document
    ELSE IF msg.animation # Absent THEN msg.animation
    ELSE IF msg.audio # Absent THEN msg.audio
    ELSE IF msg.photo # Absent THEN MimeJpeg
    ELSE IF msg.video # Absent THEN msg.video
    ELSE IF msg.voice # Absent THEN msg.voice
    ELSE IF msg.video_note # Absent THEN MimeMp4
    ELSE NoMime

\* Map.has / Map.get / Map.set on a function whose domain is the keys present.
Has(m, k) == k \in DOMAIN m
MapSet(m, k, v) == [x \in (DOMAIN m) \cup {k} |-> IF x = k THEN v ELSE m[x]]
EmptyMap == [x \in {} |-> <<>>]

\* ------------------------------------------------------- callback activations
\* A callback that is not running (never started, or completed and replaced).
IdleEv == [pc |-> "idle", kind |-> "none", api |-> 0, chatId |-> 0,
           text |-> Undefined, cmd |-> Undefined, mime_type |-> NoMime,
           specific_present |-> FALSE, all_present |-> FALSE,
           obsidian_file |-> 0,
           chain |-> "none", i |-> 0, processed_before |-> FALSE,
           outcome |-> "none"]
NoIo == [classify |-> 0, getFile |-> 0, mkdir |-> 0, download |-> 0, vault |-> 0,
         found |-> "none"]
NoReg == [api |-> "none", cmd |-> Undefined, mime_type |-> NoMime,
          entry |-> [handler |-> "h1", unit |-> <<>>], during |-> {}]

CanStart(e) == ev[e].pc \in {"idle", "done"}

\* The registries of the adapter whose callbacks an activation runs: the
\* callbacks are closures over the adapter that registered them, which is the
\* plugin's current one or one that resetBot has replaced.
RegistryOf(api) ==
    IF api = generation
    THEN [command |-> command_handlers, text |-> text_handlers, file |-> file_handlers]
    ELSE retired[api]

\* The array a suspended loop walks: the callbacks hold a reference to the
\* array stored in the registry (items, specific_handlers, all_files_handlers,
\* this._text_handlers), so they see the entries pushed meanwhile.
Items(r) ==
    LET own == RegistryOf(r.api)
    IN  CASE r.chain = "command"  -> own.command[r.cmd]
          [] r.chain = "text"     -> own.text
          [] r.chain = "specific" -> own.file[r.mime_type]
          [] r.chain = "wildcard" -> own.file[""]
          [] OTHER                -> <<>>

\* Mutant: the loop stops one entry early.
ForTest_StopsEarly(r, i) == i + 1 < Len(Items(r))

\* The condition of the for loops: i < items.length.
ForTest(r, i) == i < Len(Items(r))

\* Mutant: the loop always takes the first entry of the array.
Invoke_FirstEntry(r, cs, i, pb) ==
    [ev |-> [r EXCEPT !.pc = "handler", !.i = i, !.processed_before = pb],
     calls |-> Append(cs, [chain |-> r.chain, i |-> i, entry |-> Items(r)[1],
                           file |-> r.obsidian_file,
                           processed_before |-> pb, status |-> "pending",
                           processed |-> FALSE, answer |-> Null])]

\* const element = items[i]; await element.handler(..., processed_before)
Invoke(r, cs, i, pb) ==
    [ev |-> [r EXCEPT !.pc = "handler", !.i = i, !.processed_before = pb],
     calls |-> Append(cs, [chain |-> r.chain, i |-> i, entry |-> Items(r)[i + 1],
                           file |-> r.obsidian_file,
                           processed_before |-> pb, status |-> "pending",
                           processed |-> FALSE, answer |-> Null])]

\* The callback returns normally.
Return(r, cs, pb) ==
    [ev |-> [r EXCEPT !.pc = "done", !.processed_before = pb, !.outcome = "returned"],
     calls |-> cs]

\* Mutant: the wildcard chain is entered with a fresh flag.
Continue_FreshFlag(r, cs, i, pb) ==
    IF ForTest(r, i) THEN Invoke(r, cs, i, pb)
    ELSE IF r.chain = "specific" /\ r.all_present
         THEN LET w == [r EXCEPT !.chain = "wildcard"]
              IN  IF ForTest(w, 0) THEN Invoke(w, cs, 0, FALSE) ELSE Return(w, cs, FALSE)
         ELSE Return(r, cs, pb)

\* The loop test at index i and what follows the loop: for a file event whose
\* specific chain is exhausted, handle() is entered for all_files_handlers with
\* the accumulated flag.
Continue(r, cs, i, pb) ==
    IF ForTest(r, i) THEN Invoke(r, cs, i, pb)
    ELSE IF r.chain = "specific" /\ r.all_present
         THEN LET w == [r EXCEPT !.chain = "wildcard"]
              IN  IF ForTest(w, 0) THEN Invoke(w, cs, 0, pb) ELSE Return(w, cs, pb)
         ELSE Return(r, cs, pb)

\* Mutant: an empty configured id is taken to mean that nobody is refused.
Unauthorized_EmptyAdmitsAll(chatId) == chat_id # "" /\ String(chatId) # chat_id

\* String(ctx.chatId) !== this._chat_id
Unauthorized(chatId) == String(chatId) # chat_id

\* Mutant: the flag is overwritten by the latest result.
Accumulate_Overwrite(processed_before, processed) == processed

\* processed_before = processed_before || reply.processed
Accumulate(processed_before, processed) == processed_before \/ processed

\* Mutant: the catch block only logs.
Catch_Silent(e, r) ==
    /\ ev' = [ev EXCEPT ![e] = [r EXCEPT !.pc = "done", !.outcome = "caught"]]
    /\ replies' = replies

\* catch (error) { console.error(...); await ctx.reply('Internal error') }
Catch(e, r) ==
    /\ ev' = [ev EXCEPT ![e] = [r EXCEPT !.pc = "errReply"]]
    /\ replies' = [replies EXCEPT ![e] =
                      Append(@, [text |-> InternalError, after |-> Len(calls'[e]),
                                 status |-> "awaited"])]

\* A /start callback that is not running.
IdleStart == [pc |-> "idle", chatId |-> 0, replies |-> <<>>, outcome |-> "none"]
\* No loop is being looked at on its own.
IdleWalk == [pc |-> "idle", chain |-> "none", ahead |-> 0, later |-> 0, grown |-> FALSE]

\* No sendMessage call is running.
IdleSend == [pc |-> "idle", text |-> <<>>, sent |-> <<>>, outcome |-> "none"]

\* The plugin after its first adapter has been constructed.
\* ------------------------------------------------------------ the plugin's bots
\* The two copies of the source in the repository.
Sources == {"main.ts", "part_000"}

\* resetBot calls made after the plugin was loaded.
MaxResetCalls == 2

\* const maxRetries = 3;
maxRetries == 3

\* One call of resetBot: where it is suspended, the loop's retryCount, the
\* calls of bot.start it has made, the instance its pending start was called
\* on, how that start last settled, the calls of shutdownBot it has made.
IdleReset == [pc |-> "idle", retryCount |-> 0, starts |-> 0, target |-> 0,
              last |-> "none", shutdowns |-> 0, outcome |-> "none"]

\* The plugin once onload's resetBot has gone through: this._bot is the first
\* Bot instance, and it is polling.
LoadedLife == [source |-> "main.ts", bot |-> 1, bots |-> <<"running">>,
               reset |-> [r \in Slots |-> IdleReset], left |-> MaxResetCalls]

\* bot.isRunning()
isRunning(l, b) == l.bots[b] = "running"

\* shutdownBot(): this._bot, if it is running, is stopped.
shutdownBot(l) ==
    IF l.bot # 0 /\ isRunning(l, l.bot)
    THEN [l EXCEPT !.bots[l.bot] = "stopped"]
    ELSE l

Loaded ==
    /\ chat_id \in ConfiguredChatIds
    /\ command_handlers = EmptyMap
    /\ text_handlers = <<>>
    /\ file_handlers = EmptyMap
    /\ ev = [e \in Slots |-> IdleEv]
    /\ calls = [e \in Slots |-> <<>>]
    /\ replies = [e \in Slots |-> <<>>]
    /\ io = [e \in Slots |-> NoIo]
    /\ download_dir_exists = FALSE
    /\ lastReg = NoReg
    /\ thrown = FALSE
    /\ generation = 1
    /\ retired = <<>>
    /\ send = IdleSend
    /\ settings_chatId = chat_id
    /\ start = [e \in Slots |-> IdleStart]

Init ==
    /\ Loaded
    /\ life = LoadedLife
    /\ walk = IdleWalk
    /\ regs_left = MaxRegs
    /\ input = Null
    /\ output = <<>>

\* ------------------------------------------------------------ registration
\* Mutant: the chain of the key is replaced instead of extended.
addCommandHandler_Replaces(cmd, handler, unit_name) ==
    /\ regs_left > 0
    /\ command_handlers' =
          MapSet(command_handlers, cmd, <<[handler |-> handler, unit |-> unit_name]>>)
    /\ regs_left' = regs_left - 1
    /\ UNCHANGED <<rest, chat_id, text_handlers, file_handlers, ev, calls, replies, io,
                   download_dir_exists, thrown>>

addCommandHandler(cmd, handler, unit_name) ==
    /\ regs_left > 0
    /\ LET item_to_add == [handler |-> handler, unit |-> unit_name]
       IN  command_handlers' =
             IF Has(command_handlers, cmd)
             THEN [command_handlers EXCEPT ![cmd] = Append(@, item_to_add)]
             ELSE MapSet(command_handlers, cmd, <<item_to_add>>)
    /\ regs_left' = regs_left - 1
    /\ UNCHANGED <<rest, chat_id, text_handlers, file_handlers, ev, calls, replies, io,
                   download_dir_exists, thrown>>

\* Mutant: the new entry is put in front of the chain.
addTextHandler_Unshift(handler, unit_name) ==
    /\ regs_left > 0
    /\ LET item_to_add == [handler |-> handler, unit |-> unit_name]
       IN  text_handlers' = <<item_to_add>> \o text_handlers
    /\ regs_left' = regs_left - 1
    /\ UNCHANGED <<rest, chat_id, command_handlers, file_handlers, ev, calls, replies, io,
                   download_dir_exists, thrown>>

addTextHandler(handler, unit_name) ==
    /\ regs_left > 0
    /\ LET item_to_add == [handler |-> handler, unit |-> unit_name]
       IN  text_handlers' = Append(text_handlers, item_to_add)
    /\ regs_left' = regs_left - 1
    /\ UNCHANGED <<rest, chat_id, command_handlers, file_handlers, ev, calls, replies, io,
                   download_dir_exists, thrown>>

\* Mutant: an omitted mime_type is used as the key.
FileKey_NoDefault(mime_type) == mime_type

\* if (!mime_type) mime_type = ''
FileKey(mime_type) == IF TruthyMime(mime_type) THEN mime_type ELSE ""

addFileHandler(handler, unit_name, mime_type) ==
    /\ regs_left > 0
    /\ LET item_to_add == [handler |-> handler, unit |-> unit_name]
           key == FileKey(mime_type)
       IN  file_handlers' =
             IF Has(file_handlers, key)
             THEN [file_handlers EXCEPT ![key] = Append(@, item_to_add)]
             ELSE MapSet(file_handlers, key, <<item_to_add>>)
    /\ regs_left' = regs_left - 1
    /\ UNCHANGED <<rest, chat_id, command_handlers, text_handlers, ev, calls, replies, io,
                   download_dir_exists, thrown>>

\* ------------------------------------------------------------ ::bot_command
\* Mutant: the command name ends at the first blank.
Slice1_FirstWord(text) ==
    IF text = Undefined THEN Undefined
    ELSE LET blanks == {k \in 2..Len(text) : text[k] = " "}
             end == IF blanks = {} THEN Len(text)
                    ELSE (CHOOSE k \in blanks : \A j \in blanks : k <= j) - 1
         IN  SubSeq(text, 2, end)

\* ctx.message?.text?.slice(1)
Slice1(text) == IF text = Undefined THEN Undefined ELSE SubSeq(text, 2, Len(text))

\* Mutant: the result of the lookup is used without the test for a missing
\* chain, so reading its length throws into the catch block.
BotCommand_NoMissTest(e, chatId, text) ==
    /\ CanStart(e)
    /\ LET r0 == [IdleEv EXCEPT !.kind = "command", !.api = generation,
                                !.chatId = chatId, !.text = text]
           cmd == Slice1(text)
           r1 == [r0 EXCEPT !.cmd = cmd]
           r2 == [r1 EXCEPT !.chain = "command"]
           miss == ~Unauthorized(chatId) /\ Truthy(cmd) /\ ~Has(command_handlers, cmd)
           next == IF Unauthorized(chatId) THEN Return(r0, <<>>, FALSE)
                   ELSE IF ~Truthy(cmd) THEN Return(r1, <<>>, FALSE)
                   ELSE IF miss THEN [ev |-> [r1 EXCEPT !.pc = "errReply"], calls |-> <<>>]
                   ELSE Continue(r2, <<>>, 0, FALSE)
       IN  /\ ev' = [ev EXCEPT ![e] = next.ev]
           /\ calls' = [calls EXCEPT ![e] = next.calls]
           /\ replies' = [replies EXCEPT ![e] =
                             IF miss THEN <<[text |-> InternalError, after |-> 0,
                                              status |-> "awaited"]>>
                             ELSE <<>>]
    /\ io' = [io EXCEPT ![e] = NoIo]
    /\ UNCHANGED <<rest, chat_id, registry, download_dir_exists, regs_left, lastReg, thrown>>

\* From the start of the callback to its first suspension.
BotCommand(e, chatId, text) ==
    /\ CanStart(e)
    /\ LET r0 == [IdleEv EXCEPT !.kind = "command", !.api = generation,
                                !.chatId = chatId, !.text = text]
           cmd == Slice1(text)
           r1 == [r0 EXCEPT !.cmd = cmd]
           r2 == [r1 EXCEPT !.chain = "command"]
           next == IF Unauthorized(chatId) THEN Return(r0, <<>>, FALSE)
                   ELSE IF ~Truthy(cmd) THEN Return(r1, <<>>, FALSE)
                   ELSE IF ~Has(command_handlers, cmd) THEN Return(r1, <<>>, FALSE)
                   ELSE Continue(r2, <<>>, 0, FALSE)
       IN  /\ ev' = [ev EXCEPT ![e] = next.ev]
           /\ calls' = [calls EXCEPT ![e] = next.calls]
    /\ replies' = [replies EXCEPT ![e] = <<>>]
    /\ io' = [io EXCEPT ![e] = NoIo]
    /\ UNCHANGED <<rest, chat_id, registry, download_dir_exists, regs_left, lastReg, thrown>>

\* -------------------------------------------------------------- message:text
TextMessage(e, chatId, text) ==
    /\ CanStart(e)
    /\ LET r0 == [IdleEv EXCEPT !.kind = "text", !.api = generation,
                                !.chatId = chatId, !.text = text]
           r1 == [r0 EXCEPT !.chain = "text"]
           next == IF Unauthorized(chatId) THEN Return(r0, <<>>, FALSE)
                   ELSE IF Len(text_handlers) = 0 THEN Return(r0, <<>>, FALSE)
                   ELSE Continue(r1, <<>>, 0, FALSE)
       IN  /\ ev' = [ev EXCEPT ![e] = next.ev]
           /\ calls' = [calls EXCEPT ![e] = next.calls]
    /\ replies' = [replies EXCEPT ![e] = <<>>]
    /\ io' = [io EXCEPT ![e] = NoIo]
    /\ UNCHANGED <<rest, chat_id, registry, download_dir_exists, regs_left, lastReg, thrown>>

\* -------------------------------------------------------------- message:file
\* Mutant: the file is fetched without looking whether a chain exists.
FileMessage_NoChainTest(e, chatId, msg) ==
    /\ CanStart(e)
    /\ LET r0 == [IdleEv EXCEPT !.kind = "file", !.api = generation,
                                !.chatId = chatId]
           mime_type == getFileMimeType(msg)
           r1 == [r0 EXCEPT !.mime_type = mime_type]
           r2 == [r1 EXCEPT !.specific_present = Has(file_handlers, mime_type),
                            !.all_present = Has(file_handlers, "")]
       IN  IF Unauthorized(chatId)
           THEN /\ ev' = [ev EXCEPT ![e] = Return(r0, <<>>, FALSE).ev]
                /\ io' = [io EXCEPT ![e] = NoIo]
           ELSE IF ~TruthyMime(mime_type)
           THEN /\ ev' = [ev EXCEPT ![e] = Return(r1, <<>>, FALSE).ev]
                /\ io' = [io EXCEPT ![e] = [NoIo EXCEPT !.classify = 1]]
           ELSE /\ ev' = [ev EXCEPT ![e] = [r2 EXCEPT !.pc = "getFile"]]
                /\ io' = [io EXCEPT ![e] = [NoIo EXCEPT !.classify = 1, !.getFile = 1]]
    /\ calls' = [calls EXCEPT ![e] = <<>>]
    /\ replies' = [replies EXCEPT ![e] = <<>>]
    /\ UNCHANGED <<rest, chat_id, registry, download_dir_exists, regs_left, lastReg, thrown>>

\* From the start of the callback to await ctx.getFile().
FileMessage(e, chatId, msg) ==
    /\ CanStart(e)
    /\ LET r0 == [IdleEv EXCEPT !.kind = "file", !.api = generation,
                                !.chatId = chatId]
           mime_type == getFileMimeType(msg)
           r1 == [r0 EXCEPT !.mime_type = mime_type]
           specific_present == Has(file_handlers, mime_type)
           all_present == Has(file_handlers, "")
           r2 == [r1 EXCEPT !.specific_present = specific_present,
                            !.all_present = all_present]
       IN  IF Unauthorized(chatId)
           THEN /\ ev' = [ev EXCEPT ![e] = Return(r0, <<>>, FALSE).ev]
                /\ io' = [io EXCEPT ![e] = NoIo]
           ELSE IF ~TruthyMime(mime_type)
           THEN /\ ev' = [ev EXCEPT ![e] = Return(r1, <<>>, FALSE).ev]
                /\ io' = [io EXCEPT ![e] = [NoIo EXCEPT !.classify = 1]]
           ELSE IF ~specific_present /\ ~all_present
           THEN /\ ev' = [ev EXCEPT ![e] = Return(r2, <<>>, FALSE).ev]
                /\ io' = [io EXCEPT ![e] = [NoIo EXCEPT !.classify = 1]]
           ELSE /\ ev' = [ev EXCEPT ![e] = [r2 EXCEPT !.pc = "getFile"]]
                /\ io' = [io EXCEPT ![e] = [NoIo EXCEPT !.classify = 1, !.getFile = 1]]
    /\ calls' = [calls EXCEPT ![e] = <<>>]
    /\ replies' = [replies EXCEPT ![e] = <<>>]
    /\ UNCHANGED <<rest, chat_id, registry, download_dir_exists, regs_left, lastReg, thrown>>

\* ctx.getFile() settles; on success the file name is built, the download
\* directory is created when missing, and file.download() is awaited.
GetFileSettled(e, ok) ==
    /\ ev[e].pc = "getFile"
    /\ calls' = calls
    /\ IF ok
       THEN /\ ev' = [ev EXCEPT ![e].pc = "download"]
            /\ io' = [io EXCEPT ![e].download = @ + 1,
                                ![e].mkdir = IF download_dir_exists THEN @ ELSE @ + 1]
            /\ download_dir_exists' = TRUE
            /\ UNCHANGED replies
       ELSE /\ Catch(e, ev[e])
            /\ UNCHANGED <<io, download_dir_exists>>
    /\ UNCHANGED <<rest, chat_id, registry, regs_left, lastReg, thrown>>

\* Mutant: the chains are looked up again once the file is there.
DownloadSettled_LooksUpAgain(e, ok, found) ==
    /\ ev[e].pc = "download"
    /\ IF ok /\ found
       THEN LET r == [ev[e] EXCEPT !.obsidian_file = io[e].vault + 1,
                                   !.specific_present = Has(file_handlers, ev[e].mime_type),
                                   !.all_present = Has(file_handlers, "")]
                first == IF r.specific_present THEN "specific" ELSE "wildcard"
                next == Continue([r EXCEPT !.chain = first], <<>>, 0, FALSE)
            IN  /\ ev' = [ev EXCEPT ![e] = next.ev]
                /\ calls' = [calls EXCEPT ![e] = next.calls]
                /\ UNCHANGED replies
       ELSE /\ calls' = calls
            /\ Catch(e, ev[e])
    /\ io' = [io EXCEPT ![e].vault = IF ok THEN @ + 1 ELSE @,
                        ![e].found = IF ~ok THEN @
                                     ELSE IF found THEN "found" ELSE "missing"]
    /\ UNCHANGED <<rest, chat_id, registry, download_dir_exists, regs_left, lastReg, thrown>>

\* Mutant: the handle the vault returns is not tested for null.
DownloadSettled_NoNullTest(e, ok, found) ==
    /\ ev[e].pc = "download"
    /\ IF ok
       THEN LET r == [ev[e] EXCEPT !.obsidian_file = io[e].vault + 1]
                first == IF r.specific_present THEN "specific" ELSE "wildcard"
                next == Continue([r EXCEPT !.chain = first], <<>>, 0, FALSE)
            IN  /\ ev' = [ev EXCEPT ![e] = next.ev]
                /\ calls' = [calls EXCEPT ![e] = next.calls]
                /\ UNCHANGED replies
       ELSE /\ calls' = calls
            /\ Catch(e, ev[e])
    /\ io' = [io EXCEPT ![e].vault = IF ok THEN @ + 1 ELSE @,
                        ![e].found = IF ~ok THEN @
                                     ELSE IF found THEN "found" ELSE "missing"]
    /\ UNCHANGED <<rest, chat_id, registry, download_dir_exists, regs_left, lastReg, thrown>>

\* file.download() settles; on success the vault is asked for the file and
\* the chains are run, the specific one first, each with the handle the one
\* lookup returned (obsidian_file, named here by the ordinal of the lookup).
DownloadSettled(e, ok, found) ==
    /\ ev[e].pc = "download"
    /\ IF ok /\ found
       THEN LET r == [ev[e] EXCEPT !.obsidian_file = io[e].vault + 1]
                first == IF r.specific_present THEN "specific" ELSE "wildcard"
                next == Continue([r EXCEPT !.chain = first], <<>>, 0, FALSE)
            IN  /\ ev' = [ev EXCEPT ![e] = next.ev]
                /\ calls' = [calls EXCEPT ![e] = next.calls]
                /\ UNCHANGED replies
       ELSE /\ calls' = calls
            /\ Catch(e, ev[e])
    /\ io' = [io EXCEPT ![e].vault = IF ok THEN @ + 1 ELSE @,
                        ![e].found = IF ~ok THEN @
                                     ELSE IF found THEN "found" ELSE "missing"]
    /\ UNCHANGED <<rest, chat_id, registry, download_dir_exists, regs_left, lastReg, thrown>>

\* ------------------------------------------------- the awaited handler settles
\* Mutant: the results of the handlers are taken up one event at a time, so
\* a result waits while another event's handler is outstanding.
HandlerReturn_OneAtATime(e, processed, answer) ==
    /\ ev[e].pc = "handler"
    /\ \A other \in Slots \ {e} : ev[other].pc # "handler"
    /\ LET reply == [processed |-> processed, answer |-> answer]
           r == ev[e]
           element == Items(r)[r.i + 1]
           processed_before == Accumulate(r.processed_before, reply.processed)
           cs == [calls[e] EXCEPT ![Len(calls[e])] =
                     [@ EXCEPT !.status = "returned", !.processed = reply.processed,
                               !.answer = reply.answer]]
           next == Continue(r, cs, r.i + 1, processed_before)
       IN  /\ replies' = IF ShouldReply(reply)
                         THEN [replies EXCEPT ![e] =
                                  Append(@, [text |-> ReplyText(element.unit, reply.answer),
                                             after |-> Len(calls[e]),
                                             status |-> "pending"])]
                         ELSE replies
           /\ ev' = [ev EXCEPT ![e] = next.ev]
           /\ calls' = [calls EXCEPT ![e] = next.calls]
    /\ UNCHANGED <<rest, chat_id, registry, io, download_dir_exists, regs_left, lastReg, thrown>>

\* Mutant: a handler that claims a text message is moved to the front of the
\* chain.
HandlerReturn_MovesToFront(e, processed, answer) ==
    /\ ev[e].pc = "handler"
    /\ LET reply == [processed |-> processed, answer |-> answer]
           r == ev[e]
           element == Items(r)[r.i + 1]
           processed_before == Accumulate(r.processed_before, reply.processed)
           cs == [calls[e] EXCEPT ![Len(calls[e])] =
                     [@ EXCEPT !.status = "returned", !.processed = reply.processed,
                               !.answer = reply.answer]]
           next == Continue(r, cs, r.i + 1, processed_before)
       IN  /\ replies' = IF ShouldReply(reply)
                         THEN [replies EXCEPT ![e] =
                                  Append(@, [text |-> ReplyText(element.unit, reply.answer),
                                             after |-> Len(calls[e]),
                                             status |-> "pending"])]
                         ELSE replies
           /\ ev' = [ev EXCEPT ![e] = next.ev]
           /\ calls' = [calls EXCEPT ![e] = next.calls]
    /\ text_handlers' =
          IF ev[e].chain = "text" /\ processed /\ ev[e].i > 0
          THEN <<text_handlers[ev[e].i + 1]>>
                   \o SubSeq(text_handlers, 1, ev[e].i)
                   \o SubSeq(text_handlers, ev[e].i + 2, Len(text_handlers))
          ELSE text_handlers
    /\ UNCHANGED <<rest, chat_id, command_handlers, file_handlers, io,
                   download_dir_exists, regs_left, lastReg, thrown>>

\* Mutant: the flag is a field of the adapter, shared by the events in flight.
HandlerReturn_SharedFlag(e, processed, answer) ==
    /\ ev[e].pc = "handler"
    /\ LET reply == [processed |-> processed, answer |-> answer]
           r == ev[e]
           element == Items(r)[r.i + 1]
           processed_before ==
               Accumulate(\E o \in Slots : ev[o].processed_before, reply.processed)
           cs == [calls[e] EXCEPT ![Len(calls[e])] =
                     [@ EXCEPT !.status = "returned", !.processed = reply.processed,
                               !.answer = reply.answer]]
           next == Continue(r, cs, r.i + 1, processed_before)
       IN  /\ replies' = IF ShouldReply(reply)
                         THEN [replies EXCEPT ![e] =
                                  Append(@, [text |-> ReplyText(element.unit, reply.answer),
                                             after |-> Len(calls[e]),
                                             status |-> "pending"])]
                         ELSE replies
           /\ ev' = [ev EXCEPT ![e] = next.ev]
           /\ calls' = [calls EXCEPT ![e] = next.calls]
    /\ UNCHANGED <<rest, chat_id, registry, io, download_dir_exists, regs_left, lastReg, thrown>>

\* The handler's promise resolves with {processed, answer}: the flag is
\* accumulated, the reply is sent when the answer is truthy, the loop goes on.
HandlerReturn(e, processed, answer) ==
    /\ ev[e].pc = "handler"
    /\ LET reply == [processed |-> processed, answer |-> answer]
           r == ev[e]
           element == Items(r)[r.i + 1]
           processed_before == Accumulate(r.processed_before, reply.processed)
           cs == [calls[e] EXCEPT ![Len(calls[e])] =
                     [@ EXCEPT !.status = "returned", !.processed = reply.processed,
                               !.answer = reply.answer]]
           next == Continue(r, cs, r.i + 1, processed_before)
       IN  /\ replies' = IF ShouldReply(reply)
                         THEN [replies EXCEPT ![e] =
                                  Append(@, [text |-> ReplyText(element.unit, reply.answer),
                                             after |-> Len(calls[e]),
                                             status |-> "pending"])]
                         ELSE replies
           /\ ev' = [ev EXCEPT ![e] = next.ev]
           /\ calls' = [calls EXCEPT ![e] = next.calls]
    /\ UNCHANGED <<rest, chat_id, registry, io, download_dir_exists, regs_left, lastReg, thrown>>

\* Mutant: the failure of one handler is answered and the loop goes on with
\* the next entry.
HandlerThrow_GoesOn(e) ==
    /\ ev[e].pc = "handler"
    /\ LET r == ev[e]
           cs == [calls[e] EXCEPT ![Len(calls[e])] = [@ EXCEPT !.status = "threw"]]
           next == Continue(r, cs, r.i + 1, r.processed_before)
       IN  /\ ev' = [ev EXCEPT ![e] = next.ev]
           /\ calls' = [calls EXCEPT ![e] = next.calls]
           /\ replies' = [replies EXCEPT ![e] =
                             Append(@, [text |-> InternalError, after |-> Len(calls[e]),
                                        status |-> "awaited"])]
    /\ thrown' = TRUE
    /\ UNCHANGED <<rest, chat_id, registry, io, download_dir_exists, regs_left, lastReg>>

\* The handler's promise rejects (or its result cannot be read): the catch
\* block of the callback runs.
HandlerThrow(e) ==
    /\ ev[e].pc = "handler"
    /\ calls' = [calls EXCEPT ![e] = [@ EXCEPT ![Len(@)] = [@ EXCEPT !.status = "threw"]]]
    /\ Catch(e, ev[e])
    /\ thrown' = TRUE
    /\ UNCHANGED <<rest, chat_id, registry, io, download_dir_exists, regs_left, lastReg>>

\* The awaited ctx.reply of the catch block settles: the callback returns, or
\* the rejection leaves the callback.
ErrReplySettled(e, ok) ==
    /\ ev[e].pc = "errReply"
    /\ ev' = [ev EXCEPT ![e].pc = "done",
                        ![e].outcome = IF ok THEN "caught" ELSE "escaped"]
    /\ UNCHANGED <<rest, chat_id, registry, calls, replies, io, download_dir_exists,
                   regs_left, lastReg, thrown>>

\* A ctx.reply of a loop body is not awaited: its promise settles on its own,
\* whatever the callback does meanwhile, and nothing observes its rejection.
ReplySettled(e, k, ok) ==
    /\ k \in 1..Len(replies[e])
    /\ replies[e][k].status = "pending"
    /\ replies' = [replies EXCEPT ![e][k].status = IF ok THEN "sent" ELSE "failed"]
    /\ UNCHANGED <<rest, chat_id, registry, ev, calls, io, download_dir_exists,
                   regs_left, lastReg, thrown>>

\* ------------------------------------------------------------ specification
Register ==
    \/ \E c \in CmdNames, p \in Consumers :
          addCommandHandler(c, p.handler, p.unit) /\ UNCHANGED lastReg
    \/ \E p \in Consumers :
          addTextHandler(p.handler, p.unit) /\ UNCHANGED lastReg
    \/ \E p \in Consumers, m \in RegMimes :
          addFileHandler(p.handler, p.unit, m) /\ UNCHANGED lastReg

\* The same calls with their arguments recorded in lastReg, together with
\* the activations that were suspended when the call was made.
Registered(api, cmd, mime_type, p) ==
    lastReg' = [api |-> api, cmd |-> cmd, mime_type |-> mime_type, entry |-> p,
                during |-> {e \in Slots : ev[e].pc \in {"handler", "getFile", "download"}}]

RegisterObserved ==
    \/ \E c \in CmdNames, p \in Consumers :
          addCommandHandler(c, p.handler, p.unit) /\ Registered("command", c, NoMime, p)
    \/ \E p \in Consumers :
          addTextHandler(p.handler, p.unit) /\ Registered("text", Undefined, NoMime, p)
    \/ \E p \in Consumers, m \in RegMimes :
          addFileHandler(p.handler, p.unit, m) /\ Registered("file", Undefined, m, p)

Deliver(e) ==
    \/ \E c \in ChatIds, t \in CmdTexts : BotCommand(e, c, t)
    \/ \E c \in ChatIds, t \in Texts : TextMessage(e, c, t)
    \/ \E c \in ChatIds, m \in Msgs : FileMessage(e, c, m)

Settle(e) ==
    \/ \E ok \in BOOLEAN : GetFileSettled(e, ok)
    \/ \E ok \in BOOLEAN, found \in BOOLEAN : DownloadSettled(e, ok, found)
    \/ \E p \in BOOLEAN, a \in Answers : HandlerReturn(e, p, a)
    \/ HandlerThrow(e)
    \/ \E ok \in BOOLEAN : ErrReplySettled(e, ok)

\* One event at a time: the callbacks of the first activation only.
Next == Register \/ Deliver("e1") \/ Settle("e1")

Spec == Init /\ [][Next]_vars

\* Two events at a time, the handler awaited for the first of them never
\* settling; the promises awaited for the second one settle, its handlers
\* with a result.
Progress(e) ==
    \/ \E ok \in BOOLEAN : GetFileSettled(e, ok)
    \/ \E ok \in BOOLEAN, found \in BOOLEAN : DownloadSettled(e, ok, found)
    \/ \E p \in BOOLEAN, a \in Answers : HandlerReturn(e, p, a)
    \/ \E ok \in BOOLEAN : ErrReplySettled(e, ok)

\* An event that gets as far as a handler call: at once, or after its file
\* has been fetched.
ReachesHandler(e) ==
    \/ /\ ev[e].pc = "idle"
       /\ \/ \E c \in ChatIds, t \in CmdTexts : BotCommand(e, c, t)
          \/ \E c \in ChatIds, t \in Texts : TextMessage(e, c, t)
       /\ ev'[e].pc = "handler"
    \/ /\ ev[e].pc = "idle"
       /\ \E c \in ChatIds, m \in Msgs : FileMessage(e, c, m)
       /\ ev'[e].pc = "getFile"
    \/ GetFileSettled(e, TRUE)
    \/ DownloadSettled(e, TRUE, TRUE)

NextHung ==
    \/ Register
    \/ ReachesHandler("e1")
    \/ Deliver("e2") \/ Progress("e2") \/ HandlerThrow("e2")

SpecHung == Init /\ [][NextHung]_vars /\ WF_vars(Progress("e2"))

\* One event at a time, with the outcome of the replies that are not awaited.
NextReplies ==
    \/ Register \/ Deliver("e1") \/ Settle("e1")
    \/ \E k \in 1..MaxRegs, ok \in BOOLEAN : ReplySettled("e1", k, ok)

SpecReplies == Init /\ [][NextReplies]_vars

\* Two events processed concurrently: each activation is started once, and
\* the steps of the two callbacks interleave at their await points.
DeliverOnce(e) == ev[e].pc = "idle" /\ Deliver(e)

NextPair ==
    \/ Register
    \/ DeliverOnce("e1") \/ Settle("e1")
    \/ DeliverOnce("e2") \/ Settle("e2")

SpecPair == Init /\ [][NextPair]_vars

\* One event, started once, with the registration arguments observed.
NextLive == RegisterObserved \/ DeliverOnce("e1") \/ Settle("e1")

SpecLive == Init /\ [][NextLive]_vars

\* The same program with the registration arguments observed.
NextObserved == RegisterObserved \/ Deliver("e1") \/ Settle("e1")

SpecObserved == Init /\ [][NextObserved]_vars

\* ------------------------------------------------------------------ resetBot
\* Mutant: the new adapter is given the maps and the array of the old one.
ResetBot_KeepsHandlers ==
    /\ generation <= MaxResets
    /\ generation' = generation + 1
    /\ retired' = Append(retired, RegistryOf(generation))
    /\ chat_id' = settings_chatId
    /\ UNCHANGED <<registry, ev, calls, replies, io, download_dir_exists, regs_left,
                   lastReg, thrown, send, input, output, outside>>

\* this._api = new TelegramBotAdapter(..., this.settings.chatId, ...): the
\* plugin's adapter is replaced by one with empty registries and the chat id
\* the settings hold by then. The callbacks of the old adapter that are
\* suspended keep the old adapter and run on.
\* this._api = new TelegramBotAdapter(..., this.settings.chatId, ...): the new
\* adapter starts with empty registries and the chat id of the settings.
NewAdapter ==
    /\ generation' = generation + 1
    /\ retired' = Append(retired, RegistryOf(generation))
    /\ chat_id' = settings_chatId
    /\ command_handlers' = EmptyMap
    /\ text_handlers' = <<>>
    /\ file_handlers' = EmptyMap

ResetBot ==
    /\ generation <= MaxResets
    /\ NewAdapter
    /\ UNCHANGED <<ev, calls, replies, io, download_dir_exists, regs_left,
                   lastReg, thrown, send, input, output, outside>>

NextReset == Register \/ Deliver("e1") \/ Settle("e1") \/ ResetBot

SpecReset == Init /\ [][NextReset]_vars

\* ------------------------------------------------------------ resetBot, step by step
\* What a call of resetBot leaves alone whatever it does.
notPlugin == <<ev, calls, replies, io, download_dir_exists, regs_left, lastReg,
               thrown, send, input, output, settings_chatId, start, walk>>

adapterVars == <<generation, retired, chat_id, registry>>

\* this._bot.start() is called: the instance this._bot names at that moment
\* begins polling.
startCalled(l, r) ==
    [l EXCEPT !.bots[l.bot] = "running",
              !.reset[r].pc = "start",
              !.reset[r].starts = @ + 1,
              !.reset[r].target = l.bot]

\* The outer catch block: the error is reported and shutdownBot() is called.
caught(l, r) ==
    [shutdownBot(l) EXCEPT !.reset[r].pc = "done",
                           !.reset[r].outcome = "failed",
                           !.reset[r].shutdowns = @ + 1]

\* resetBot of src/unnamed/part_000, which has no await: the running bot is
\* stopped, a new one is made, the adapter is built on it, and start() is
\* called on it without being awaited.
resetBot_part000(r) ==
    /\ life.source = "part_000"
    /\ life.reset[r].pc \in {"idle", "done"}
    /\ life.left > 0
    /\ LET l1 == shutdownBot(life)
           l2 == [l1 EXCEPT !.bots = Append(@, "new"), !.bot = Len(l1.bots) + 1,
                            !.left = @ - 1,
                            !.reset[r] = [IdleReset EXCEPT !.shutdowns = 1]]
           l3 == startCalled(l2, r)
       IN  life' = [l3 EXCEPT !.reset[r].pc = "done",
                              !.reset[r].outcome = "started"]
    /\ NewAdapter
    /\ UNCHANGED notPlugin

\* resetBot of src/main.ts up to its first await: shutdownBot(), then the
\* one-second timer is awaited.
resetBot(r) ==
    /\ life.source = "main.ts"
    /\ life.reset[r].pc \in {"idle", "done"}
    /\ life.left > 0
    /\ life' = [shutdownBot(life) EXCEPT
                    !.left = @ - 1,
                    !.reset[r] = [IdleReset EXCEPT !.pc = "delay", !.shutdowns = 1]]
    /\ UNCHANGED <<adapterVars, notPlugin>>

\* The timer has fired. A token of the wrong format ends the call; otherwise
\* this._bot = new Bot(...), and getMe() is awaited.  (The token is taken as
\* already trimmed, so saveSettings is not awaited here.)
DelaySettled(r, valid) ==
    /\ life.reset[r].pc = "delay"
    /\ life' = IF valid
               THEN [life EXCEPT !.bots = Append(@, "new"),
                                 !.bot = Len(life.bots) + 1,
                                 !.reset[r].pc = "getMe"]
               ELSE [life EXCEPT !.reset[r].pc = "done",
                                 !.reset[r].outcome = "invalid token"]
    /\ UNCHANGED <<adapterVars, notPlugin>>

\* await this._bot.api.getMe() has settled. On success the adapter is built
\* and deleteWebhook is awaited; on failure the error reaches the outer catch.
GetMeSettled(r, ok) ==
    /\ life.reset[r].pc = "getMe"
    /\ IF ok
       THEN /\ life' = [life EXCEPT !.reset[r].pc = "deleteWebhook"]
            /\ NewAdapter
       ELSE /\ life' = caught(life, r)
            /\ UNCHANGED adapterVars
    /\ UNCHANGED notPlugin

\* await nodeAPI.makeRequest('deleteWebhook') has settled, either way (its
\* own catch only logs): retryCount = 0, the loop is entered and start() is
\* called for the first time.
DeleteWebhookSettled(r) ==
    /\ life.reset[r].pc = "deleteWebhook"
    /\ life' = startCalled(life, r)
    /\ UNCHANGED <<adapterVars, notPlugin>>

\* Mutant: every start error is retried like a 409.
StartSettled_RetriesAnyError(r, result) ==
    /\ life.reset[r].pc = "start"
    /\ LET t == life.reset[r].target
           l1 == [life EXCEPT !.reset[r].last = result]
           l2 == [l1 EXCEPT !.bots[t] = "stopped"]
       IN  life' =
             IF result = "ok"
             THEN [l1 EXCEPT !.reset[r].pc = "done", !.reset[r].outcome = "started"]
             ELSE LET l3 == [l2 EXCEPT !.reset[r].retryCount = @ + 1]
                  IN  IF l3.reset[r].retryCount < maxRetries
                      THEN [l3 EXCEPT !.reset[r].pc = "backoff"]
                      ELSE caught(l3, r)
    /\ UNCHANGED <<adapterVars, notPlugin>>

\* await this._bot.start() has settled. Resolved: break, the call is over.
\* Rejected with a GrammyError 409: retryCount++, then either the delay is
\* awaited or an Error is thrown to the outer catch. Rejected otherwise: the
\* error is rethrown to the outer catch. An instance whose start was rejected
\* is not polling.
StartSettled(r, result) ==
    /\ life.reset[r].pc = "start"
    /\ LET t == life.reset[r].target
           l1 == [life EXCEPT !.reset[r].last = result]
           l2 == [l1 EXCEPT !.bots[t] = "stopped"]
       IN  life' =
             IF result = "ok"
             THEN [l1 EXCEPT !.reset[r].pc = "done", !.reset[r].outcome = "started"]
             ELSE IF result = "409"
             THEN LET l3 == [l2 EXCEPT !.reset[r].retryCount = @ + 1]
                  IN  IF l3.reset[r].retryCount < maxRetries
                      THEN [l3 EXCEPT !.reset[r].pc = "backoff"]
                      ELSE caught(l3, r)
             ELSE caught(l2, r)
    /\ UNCHANGED <<adapterVars, notPlugin>>

\* The delay of 2000 * retryCount has passed: continue, the loop's test
\* holds, start() is called again on this._bot.
BackoffSettled(r) ==
    /\ life.reset[r].pc = "backoff"
    /\ life.reset[r].retryCount < maxRetries
    /\ life' = startCalled(life, r)
    /\ UNCHANGED <<adapterVars, notPlugin>>

\* onunload(): shutdownBot().
onunload ==
    /\ life' = shutdownBot(life)
    /\ UNCHANGED <<adapterVars, notPlugin>>

StartResults == {"ok", "409", "other"}

\* Whatever a suspended call of resetBot is waiting for settles.
ResetSettles(r) ==
    \/ \E valid \in BOOLEAN : DelaySettled(r, valid)
    \/ \E ok \in BOOLEAN : GetMeSettled(r, ok)
    \/ DeleteWebhookSettled(r)
    \/ \E result \in StartResults : StartSettled(r, result)
    \/ BackoffSettled(r)

\* The loaded plugin, built from either copy of the source.
InitBoot ==
    /\ Loaded
    /\ \E src \in Sources : life = [LoadedLife EXCEPT !.source = src]
    /\ walk = IdleWalk
    /\ regs_left = MaxRegs
    /\ input = Null
    /\ output = <<>>

NextBoot ==
    \/ resetBot("e1") \/ resetBot("e2")
    \/ resetBot_part000("e1") \/ resetBot_part000("e2")
    \/ ResetSettles("e1") \/ ResetSettles("e2")
    \/ onunload

\* Every await of resetBot settles in the end.
SpecBoot ==
    /\ InitBoot
    /\ [][NextBoot]_vars
    /\ WF_vars(ResetSettles("e1"))
    /\ WF_vars(ResetSettles("e2"))

\* -------------------------------------------------------------------- /start
\* The texts of the two replies of the /start callback.
AlreadyWorking == <<"A", "l", "r", "e", "a", "d", "y">>
ReadyToWork == <<"H", "i">>

\* Mutant: a /start from a new conversation takes the bot over.
StartCommand_TakesOver(s, chatId) ==
    /\ start[s].pc \in {"idle", "done"}
    /\ IF settings_chatId = String(chatId)
       THEN /\ start' = [start EXCEPT ![s] = [pc |-> "done", chatId |-> chatId,
                                              replies |-> <<AlreadyWorking>>,
                                              outcome |-> "returned"]]
            /\ UNCHANGED settings_chatId
       ELSE /\ settings_chatId' = String(chatId)
            /\ start' = [start EXCEPT ![s] = [pc |-> "saving", chatId |-> chatId,
                                              replies |-> <<>>, outcome |-> "none"]]
    /\ UNCHANGED <<chat_id, registry, ev, calls, replies, io, download_dir_exists,
                   regs_left, lastReg, thrown, generation, retired, send, input, output,
                   walk, life>>

\* Mutant: the first contact is told to the running adapter as well.
StartCommand_TellsAdapter(s, chatId) ==
    /\ start[s].pc \in {"idle", "done"}
    /\ IF settings_chatId = String(chatId)
       THEN /\ start' = [start EXCEPT ![s] = [pc |-> "done", chatId |-> chatId,
                                              replies |-> <<AlreadyWorking>>,
                                              outcome |-> "returned"]]
            /\ UNCHANGED <<settings_chatId, chat_id>>
       ELSE IF settings_chatId # ""
       THEN /\ start' = [start EXCEPT ![s] = [pc |-> "done", chatId |-> chatId,
                                              replies |-> <<>>, outcome |-> "returned"]]
            /\ UNCHANGED <<settings_chatId, chat_id>>
       ELSE /\ settings_chatId' = String(chatId)
            /\ chat_id' = String(chatId)
            /\ start' = [start EXCEPT ![s] = [pc |-> "saving", chatId |-> chatId,
                                              replies |-> <<>>, outcome |-> "none"]]
    /\ UNCHANGED <<registry, ev, calls, replies, io, download_dir_exists,
                   regs_left, lastReg, thrown, generation, retired, send, input, output,
                   walk, life>>

\* this._bot.command("start", ...) from its start to its return or to
\* await this.saveSettings(): the test of the stored id and the assignment
\* run without a suspension between them.
StartCommand(s, chatId) ==
    /\ start[s].pc \in {"idle", "done"}
    /\ IF settings_chatId = String(chatId)
       THEN /\ start' = [start EXCEPT ![s] = [pc |-> "done", chatId |-> chatId,
                                              replies |-> <<AlreadyWorking>>,
                                              outcome |-> "returned"]]
            /\ UNCHANGED settings_chatId
       ELSE IF settings_chatId # ""
       THEN /\ start' = [start EXCEPT ![s] = [pc |-> "done", chatId |-> chatId,
                                              replies |-> <<>>, outcome |-> "returned"]]
            /\ UNCHANGED settings_chatId
       ELSE /\ settings_chatId' = String(chatId)
            /\ start' = [start EXCEPT ![s] = [pc |-> "saving", chatId |-> chatId,
                                              replies |-> <<>>, outcome |-> "none"]]
    /\ UNCHANGED <<chat_id, registry, ev, calls, replies, io, download_dir_exists,
                   regs_left, lastReg, thrown, generation, retired, send, input, output,
                   walk, life>>

\* await this.saveSettings() settles: the greeting is sent, or the catch block
\* logs the error; the id stays in this.settings either way.
SaveSettled(s, ok) ==
    /\ start[s].pc = "saving"
    /\ start' = [start EXCEPT ![s].pc = "done",
                              ![s].replies = IF ok THEN <<ReadyToWork>> ELSE <<>>,
                              ![s].outcome = IF ok THEN "returned" ELSE "caught"]
    /\ UNCHANGED <<chat_id, registry, ev, calls, replies, io, download_dir_exists,
                   regs_left, lastReg, thrown, generation, retired, send, input, output,
                   settings_chatId, walk, life>>

StartStep(s) ==
    \/ \E c \in ChatIds : StartCommand(s, c)
    \/ \E ok \in BOOLEAN : SaveSettled(s, ok)

\* /start callbacks of two conversations at once, and resetBot.
NextFirstContact == StartStep("e1") \/ StartStep("e2") \/ ResetBot

SpecFirstContact == Init /\ [][NextFirstContact]_vars

\* One /start callback next to the adapter's registrations and callbacks and
\* to resetBot.
NextStart ==
    \/ Register
    \/ Deliver("e1") \/ Settle("e1")
    \/ StartStep("e1")
    \/ ResetBot

SpecStart == Init /\ [][NextStart]_vars

\* ------------------------------------------------- the local name of a file
\* All strings over an alphabet with at most n characters.
RECURSIVE StringsUpTo(_, _)
StringsUpTo(alphabet, n) ==
    IF n = 0 THEN {<<>>}
    ELSE LET shorter == StringsUpTo(alphabet, n - 1)
         IN  shorter \cup {Append(w, c) : w \in {x \in shorter : Len(x) = n - 1},
                                          c \in alphabet}

\* text.replace(/from/g, to) for a one-character pattern.
RECURSIVE ReplaceAll(_, _, _)
ReplaceAll(text, from, to) ==
    IF text = <<>> THEN <<>>
    ELSE <<IF Head(text) = from THEN to ELSE Head(text)>> \o ReplaceAll(Tail(text), from, to)

\* moment().format('YYYY-MM-DD-HH-mm-ss-'): one token per second, then the
\* hyphen the format ends with.
Stamps == {<<"12:00:01", "-">>, <<"12:00:02", "-">>}
\* file.file_path of the two files, and what an undefined one concatenates to.
FilePaths == (StringsUpTo({"a", "/", "-"}, MaxPathLen) \ {<<>>}) \cup {Undefined}
UndefinedText == <<"u", "n", "d", "e", "f", "i", "n", "e", "d">>
\* this._download_path, relative to the vault.
DownloadDir == <<"d">>

\* const file_name = moment().format(...) + file.file_path?.replace(/\//g, '-')
FileName(stamp, file_path) ==
    stamp \o (IF file_path = Undefined THEN UndefinedText
              ELSE ReplaceAll(file_path, "/", "-"))

\* download_path.slice(this._vault_path.length+1).replace(/\\/g,'/'), where
\* download_path is path.join(vault_path, download_path, file_name): the key
\* under which the vault is asked for the file handle.
PathInVault(file_name) == ReplaceAll(DownloadDir \o <<"/">> \o file_name, "\\", "/")

\* Two files are named and looked up, each with the second it arrived in.
InitFileName ==
    /\ Loaded
    /\ life = LoadedLife
    /\ walk = IdleWalk
    /\ regs_left = MaxRegs
    /\ input \in [stamp1 : Stamps, path1 : FilePaths, stamp2 : Stamps, path2 : FilePaths]
    /\ output = <<>>

NameFiles ==
    /\ output = <<>>
    /\ LET name1 == FileName(input.stamp1, input.path1)
           name2 == FileName(input.stamp2, input.path2)
       IN  output' = <<[name1 |-> name1, name2 |-> name2,
                        handle1 |-> PathInVault(name1), handle2 |-> PathInVault(name2)]>>
    /\ UNCHANGED <<chat_id, registry, ev, calls, replies, io, download_dir_exists,
                   regs_left, lastReg, thrown, outside, generation, retired, send, input>>

SpecFileName == InitFileName /\ [][NameFiles]_vars

\* ------------------------------------------------------------ esc on its own
EscTexts == StringsUpTo(EscapeSet \cup {"a", "\\"}, MaxTextLen)

InitEsc ==
    /\ Loaded
    /\ life = LoadedLife
    /\ walk = IdleWalk
    /\ regs_left = MaxRegs
    /\ input \in EscTexts
    /\ output = <<>>

\* esc(text), and esc applied to its own result.
ApplyEsc ==
    /\ Len(output) < 2
    /\ output' = Append(output, esc(IF output = <<>> THEN input ELSE output[1]))
    /\ UNCHANGED <<chat_id, registry, ev, calls, replies, io, download_dir_exists,
                   regs_left, lastReg, thrown, outside, generation, retired, send, input>>

SpecEsc == InitEsc /\ [][ApplyEsc]_vars

\* ------------------------------------------------- the reply text on its own
\* The reply sites of the adapter.
ReplySites == {"::bot_command", "message:file", "message:text"}
UnitNames == StringsUpTo({"u", "_"}, 2) \ {<<>>}
AnswerTexts == StringsUpTo({"k", "!"}, 2) \ {<<>>}

InitReply ==
    /\ Loaded
    /\ life = LoadedLife
    /\ walk = IdleWalk
    /\ regs_left = MaxRegs
    /\ input \in [source : Sources, site : ReplySites, unit : UnitNames,
                   answer : AnswerTexts]
    /\ output = <<>>

\* The argument of ctx.reply at a reply site of one copy; the three sites of
\* a copy use the same template.
ComposeReply ==
    /\ output = <<>>
    /\ output' = <<IF input.source = "main.ts"
                   THEN ReplyText(input.unit, input.answer)
                   ELSE ReplyText_part000(input.unit, input.answer)>>
    /\ UNCHANGED <<chat_id, registry, ev, calls, replies, io, download_dir_exists,
                   regs_left, lastReg, thrown, outside, generation, retired, send, input>>

SpecReply == InitReply /\ [][ComposeReply]_vars

\* ------------------------------------------------ getFileMimeType on its own
\* The mime_type of a payload that carries one: absent, or one of two strings.
ProvidedMimes == {NoMime, "application/pdf", "audio/ogg"}
\* Every combination of payload kinds present in a message; a photo and a
\* video note have no mime_type to carry.
AnyMsgs == [document : {Absent} \cup ProvidedMimes, animation : {Absent} \cup ProvidedMimes,
            audio : {Absent} \cup ProvidedMimes, photo : {Absent, NoMime},
            video : {Absent} \cup ProvidedMimes, voice : {Absent} \cup ProvidedMimes,
            video_note : {Absent, NoMime}]

InitMime ==
    /\ Loaded
    /\ life = LoadedLife
    /\ walk = IdleWalk
    /\ regs_left = MaxRegs
    /\ input \in AnyMsgs
    /\ output = <<>>

ClassifyMsg ==
    /\ output = <<>>
    /\ output' = <<getFileMimeType(input)>>
    /\ UNCHANGED <<chat_id, registry, ev, calls, replies, io, download_dir_exists,
                   regs_left, lastReg, thrown, outside, generation, retired, send, input>>

SpecMime == InitMime /\ [][ClassifyMsg]_vars

\* ---------------------------------------------------------------- sendMessage
SendTexts == StringsUpTo({"a", "_", "!"}, 2)

\* One call of a transport: sendMessage(this._chat_id, this.esc(text), ...).
Sending(via, text) ==
    [via |-> via, chat_id |-> chat_id, text |-> esc(text), status |-> "pending"]

\* The call starts: src/main.ts awaits the Node.js client first, the other
\* copy of the adapter awaits bot.api at once.
sendMessage(text) ==
    /\ send.pc \in {"idle", "done"}
    /\ send' = [pc |-> IF input = "main.ts" THEN "node" ELSE "grammy",
                text |-> text,
                sent |-> <<Sending(IF input = "main.ts" THEN "node" ELSE "grammy", text)>>,
                outcome |-> "none"]
    /\ UNCHANGED <<chat_id, registry, ev, calls, replies, io, download_dir_exists,
                   regs_left, lastReg, thrown, outside, generation, retired, input, output>>

\* Mutant: the second transport is used whether or not the first one failed.
NodeSettled_SendsTwice(ok) ==
    /\ send.pc = "node"
    /\ send' = [send EXCEPT
                   !.pc = "grammy",
                   !.sent = Append([@ EXCEPT ![1].status = IF ok THEN "sent" ELSE "failed"],
                                   Sending("grammy", send.text))]
    /\ UNCHANGED <<chat_id, registry, ev, calls, replies, io, download_dir_exists,
                   regs_left, lastReg, thrown, outside, generation, retired, input, output>>

\* await this._nodeAPI.sendMessage(...) settles: the call returns, or the
\* catch block awaits this._bot.api.sendMessage(...).
NodeSettled(ok) ==
    /\ send.pc = "node"
    /\ send' = IF ok
               THEN [send EXCEPT !.pc = "done", !.outcome = "resolved",
                                 !.sent[1].status = "sent"]
               ELSE [send EXCEPT
                        !.pc = "grammy",
                        !.sent = Append([@ EXCEPT ![1].status = "failed"],
                                        Sending("grammy", send.text))]
    /\ UNCHANGED <<chat_id, registry, ev, calls, replies, io, download_dir_exists,
                   regs_left, lastReg, thrown, outside, generation, retired, input, output>>

\* await this._bot.api.sendMessage(...) settles: nothing catches its rejection.
GrammySettled(ok) ==
    /\ send.pc = "grammy"
    /\ send' = [send EXCEPT !.pc = "done",
                            !.outcome = IF ok THEN "resolved" ELSE "rejected",
                            !.sent[Len(send.sent)].status = IF ok THEN "sent" ELSE "failed"]
    /\ UNCHANGED <<chat_id, registry, ev, calls, replies, io, download_dir_exists,
                   regs_left, lastReg, thrown, outside, generation, retired, input, output>>

\* The adapter of either copy of the source is in use.
InitSend ==
    /\ Loaded
    /\ life = LoadedLife
    /\ walk = IdleWalk
    /\ regs_left = MaxRegs
    /\ input \in Sources
    /\ output = <<>>

NextSend ==
    \/ \E t \in SendTexts : sendMessage(t)
    \/ \E ok \in BOOLEAN : NodeSettled(ok)
    \/ \E ok \in BOOLEAN : GrammySettled(ok)

SpecSend == InitSend /\ [][NextSend]_vars

\* ------------------------------------------------- one loop over a live chain
\* for (let i = 0; i < items.length; i++) { await element.handler(...) } with
\* handlers that register further handlers while they run. The loop is seen
\* by items.length - i, the entries of the walked chain not yet passed (the
\* one that is running included); a file event that walks its specific chain
\* has the entries of its wildcard chain to walk afterwards.
Chains == {"command", "text", "specific", "wildcard"}

InitWalk ==
    /\ Loaded
    /\ life = LoadedLife
    /\ regs_left = MaxRegs
    /\ input = Null
    /\ output = <<>>
    /\ \E c \in Chains, a \in 1..MaxAhead, l \in 0..MaxAhead :
          /\ l > 0 => c = "specific"
          /\ walk = [pc |-> "handler", chain |-> c, ahead |-> a, later |-> l,
                     grown |-> FALSE]

\* Mutant: the loop has no i++.
WalkReturn_NoAdvance ==
    /\ walk.pc = "handler"
    /\ walk' = walk
    /\ UNCHANGED <<chat_id, registry, ev, calls, replies, io, download_dir_exists,
                   regs_left, lastReg, thrown, generation, retired, send, input, output,
                   settings_chatId, start, life>>

\* The awaited handler returns: i++, then the loop test; after the specific
\* chain of a file event its wildcard chain is walked from index 0.
WalkReturn ==
    /\ walk.pc = "handler"
    /\ walk' = IF walk.ahead > 1 THEN [walk EXCEPT !.ahead = @ - 1]
               ELSE IF walk.chain = "specific" /\ walk.later > 0
               THEN [walk EXCEPT !.chain = "wildcard", !.ahead = walk.later, !.later = 0]
               ELSE [walk EXCEPT !.pc = "done", !.ahead = 0]
    /\ UNCHANGED <<chat_id, registry, ev, calls, replies, io, download_dir_exists,
                   regs_left, lastReg, thrown, generation, retired, send, input, output,
                   settings_chatId, start, life>>

\* The running handler registers a handler under the key of the chain being
\* walked, or under the wildcard key of a file event that has a wildcard
\* chain still to walk: the push lengthens the array the loop reads.
WalkRegister(c) ==
    /\ walk.pc = "handler"
    /\ \/ /\ c = walk.chain
          /\ walk.ahead <= MaxAhead
          /\ walk' = [walk EXCEPT !.ahead = @ + 1, !.grown = TRUE]
       \/ /\ c = "wildcard" /\ walk.chain = "specific" /\ walk.later \in 1..MaxAhead
          /\ walk' = [walk EXCEPT !.later = @ + 1, !.grown = TRUE]
    /\ UNCHANGED <<chat_id, registry, ev, calls, replies, io, download_dir_exists,
                   regs_left, lastReg, thrown, generation, retired, send, input, output,
                   settings_chatId, start, life>>

WalkRegisters == \E c \in Chains : WalkRegister(c)

NextWalk == WalkReturn \/ WalkRegisters

\* Every handler invocation returns.
SpecWalk == InitWalk /\ [][NextWalk]_vars /\ WF_vars(WalkReturn)

\* ============================================================== properties
\* What the properties read off an activation.
Authorized(e) == String(ev[e].chatId) = chat_id
Started(e) == ev[e].kind # "none"
Returned(e) == ev[e].pc = "done" /\ ev[e].outcome = "returned"
\* The registered array behind a chain name of activation e.
ChainOf(e, chain) == Items([ev[e] EXCEPT !.chain = chain])
\* The positions in a call log of the calls made on one chain.
CallsOn(cs, chain) == {k \in 1..Len(cs) : cs[k].chain = chain}
\* The replies of an activation that are (are not) the catch block's reply.
ErrorReplies(e) == {k \in 1..Len(replies[e]) : replies[e][k].text = InternalError}
HandlerReplies(e) == {k \in 1..Len(replies[e]) : replies[e][k].text # InternalError}
\* A step in which activation e leaves a chain whose loop ran to its end.
LeavesChain(e, chain) ==
    /\ ev'[e] # ev[e]
    /\ \/ ev'[e].pc = "done" /\ ev'[e].outcome = "returned" /\ ev'[e].chain = chain
       \/ /\ chain = "specific" /\ ev'[e].specific_present
          /\ ev[e].pc \in {"handler", "download"} /\ ev[e].chain # "wildcard"
          /\ ev'[e].pc \in {"handler", "done"} /\ ev'[e].chain = "wildcard"

\* C1: the handlers of a chain are invoked for one event in registration
\* order, one at a time, none skipped or reordered: the k-th call made on a
\* chain is the chain's k-th entry, only the latest call can be outstanding,
\* and when the loop over a chain ends every entry of it has been called.
C1_OrderState ==
    \A e \in Slots :
        LET cs == calls[e]
        IN  \A k \in 1..Len(cs) :
              /\ cs[k].i = Cardinality({j \in CallsOn(cs, cs[k].chain) : j < k})
              /\ cs[k].i < Len(ChainOf(e, cs[k].chain))
              /\ cs[k].entry = ChainOf(e, cs[k].chain)[cs[k].i + 1]
              /\ k < Len(cs) => cs[k].status = "returned"
C1_OrderStep ==
    \A e \in Slots : \A chain \in {"command", "text", "specific", "wildcard"} :
        LeavesChain(e, chain) =>
            Cardinality(CallsOn(calls'[e], chain)) =
                Len(Items([ev'[e] EXCEPT !.chain = chain]))
C1_InvocationOrder == []C1_OrderState /\ [][C1_OrderStep]_vars
\* A command event that returned after calling two different entries.
C1_Witness ==
    \E e \in Slots :
        /\ Returned(e) /\ ev[e].kind = "command" /\ Len(calls[e]) = 2
        /\ calls[e][1].entry # calls[e][2].entry
        /\ calls[e][1].chain = calls[e][2].chain

\* Some earlier call on the same chain returned processed = true.
ClaimedBefore(cs, k) ==
    \E j \in CallsOn(cs, cs[k].chain) : j < k /\ cs[j].status = "returned" /\ cs[j].processed
\* The first call made on the chain of call k.
FirstOn(cs, k) == CHOOSE j \in CallsOn(cs, cs[k].chain) : \A l \in CallsOn(cs, cs[k].chain) : j <= l

\* C2: within one chain for one event, the processed_before passed to a call
\* is the chain's starting flag OR-ed with the processed results of the
\* earlier calls of the chain, and so is the flag kept after the last return;
\* the value passed never goes from true back to false.
C2_ProcessedBeforeAccumulates ==
    \A e \in Slots :
        LET cs == calls[e]
            n == Len(cs)
        IN  /\ \A k \in 1..n :
                  /\ cs[k].processed_before =
                         (cs[FirstOn(cs, k)].processed_before \/ ClaimedBefore(cs, k))
                  /\ k < n /\ cs[k].processed_before => cs[k + 1].processed_before
            /\ n > 0 /\ cs[n].status = "returned" =>
                  ev[e].processed_before =
                      (cs[FirstOn(cs, n)].processed_before \/ ClaimedBefore(cs, n)
                          \/ cs[n].processed)
\* Two calls on one chain: the first claimed the event, the second was told
\* so and returned processed = false, and the flag stayed true.
C2_Witness ==
    \E e \in Slots :
        /\ Returned(e) /\ Len(calls[e]) = 2
        /\ calls[e][1].chain = calls[e][2].chain
        /\ ~calls[e][1].processed_before /\ calls[e][1].processed
        /\ calls[e][2].processed_before /\ ~calls[e][2].processed
        /\ ev[e].processed_before

\* C3: for a file event that found both a specific and a wildcard chain, the
\* specific chain runs first and in full, starting with processed_before =
\* false, and the first wildcard call receives the flag the specific chain
\* accumulated.
C3_State ==
    \A e \in Slots :
        LET cs == calls[e]
            sp == CallsOn(cs, "specific")
            wc == CallsOn(cs, "wildcard")
        IN  ev[e].kind = "file" /\ ev[e].specific_present /\ ev[e].all_present =>
              /\ \A j \in sp, k \in wc : j < k
              /\ cs # <<>> => cs[1].chain = "specific" /\ ~cs[1].processed_before
              /\ \A k \in wc :
                    (\A l \in wc : k <= l) =>
                        cs[k].processed_before = (\E j \in sp : cs[j].processed)
C3_Step ==
    \A e \in Slots :
        ( /\ ev'[e].kind = "file" /\ ev'[e].specific_present /\ ev'[e].all_present
          /\ CallsOn(calls[e], "wildcard") = {}
          /\ CallsOn(calls'[e], "wildcard") # {} ) =>
            /\ Cardinality(CallsOn(calls'[e], "specific")) =
                   Len(Items([ev'[e] EXCEPT !.chain = "specific"]))
            /\ \A j \in CallsOn(calls'[e], "specific") : calls'[e][j].status = "returned"
C3_SpecificBeforeWildcard == []C3_State /\ [][C3_Step]_vars
\* A wildcard handler is told that a specific handler claimed the file.
C3_Witness ==
    \E e \in Slots :
        /\ ev[e].kind = "file" /\ ev[e].specific_present /\ ev[e].all_present
        /\ Len(calls[e]) = 2
        /\ calls[e][1].chain = "specific" /\ calls[e][1].processed
        /\ calls[e][2].chain = "wildcard" /\ calls[e][2].processed_before

\* C4: an event from a conversation other than the configured one (every
\* event, when the configured id is empty) is dropped by the first test of
\* its callback: no handler call, no reply, no classification, no transport
\* or filesystem use, and nothing looked up.
C4_UnauthorizedIsSilent ==
    \A e \in Slots :
        Started(e) /\ ~Authorized(e) =>
            /\ Returned(e)
            /\ calls[e] = <<>> /\ replies[e] = <<>> /\ io[e] = NoIo
            /\ ev[e].chain = "none" /\ ev[e].cmd = Undefined /\ ev[e].mime_type = NoMime
            /\ ~ev[e].specific_present /\ ~ev[e].all_present
\* With no conversation configured, a file event is dropped although a
\* wildcard handler is registered.
C4_Witness ==
    \E e \in Slots :
        /\ chat_id = "" /\ ev[e].kind = "file" /\ Returned(e)
        /\ Has(file_handlers, "")

\* The catch block of activation e has been entered.
InCatch(e) == ev[e].pc = "errReply" \/ ev[e].outcome \in {"caught", "escaped"}
\* The latest handler call of activation e threw.
HandlerThrew(e) == calls[e] # <<>> /\ calls[e][Len(calls[e])].status = "threw"

\* C5: a handler that throws gets exactly one generic error reply for its
\* event (and no event gets one otherwise), the throw leaves the registries
\* as they were, and an event dispatched after a throw still runs its whole
\* chain.
C5_State ==
    \A e \in Slots :
        /\ Cardinality(ErrorReplies(e)) = IF InCatch(e) THEN 1 ELSE 0
        /\ HandlerThrew(e) =>
              /\ InCatch(e)
              /\ replies[e][Len(replies[e])] =
                     [text |-> InternalError, after |-> Len(calls[e]),
                      status |-> "awaited"]
C5_Step ==
    /\ \A e \in Slots : ~HandlerThrew(e) /\ HandlerThrew(e)' => UNCHANGED registry
    /\ thrown => C1_OrderStep
C5_ThrowIsAnsweredOnce == []C5_State /\ [][C5_Step]_vars
\* After some handler has thrown, a later event ran a chain to its end and
\* was answered.
C5_Witness ==
    \E e \in Slots :
        /\ thrown /\ Returned(e) /\ calls[e] # <<>>
        /\ HandlerReplies(e) # {} /\ ErrorReplies(e) = {}

\* The replies with which the k-th call of activation e was answered.
RepliesTo(e, k) == {m \in HandlerReplies(e) : replies[e][m].after = k}

\* C6 as stated: a returned call is answered exactly once when its answer is
\* not null, and not at all when it is null.
C6_NonNullAnswerIsSent ==
    \A e \in Slots : \A k \in 1..Len(calls[e]) :
        calls[e][k].status = "returned" =>
            Cardinality(RepliesTo(e, k)) = IF calls[e][k].answer # Null THEN 1 ELSE 0

\* C6 as amended: a returned call is answered exactly once, with its owner's
\* label and its answer, when its answer is a non-empty string, and not at
\* all when the answer is null or empty, whatever its processed value; calls
\* are answered in the order they were made, and only returned calls are.
C6_NonEmptyAnswerIsSent ==
    \A e \in Slots :
        LET cs == calls[e]
        IN  /\ \A k \in 1..Len(cs) :
                  IF cs[k].status = "returned" /\ Truthy(cs[k].answer)
                  THEN \E m \in 1..Len(replies[e]) :
                          /\ RepliesTo(e, k) = {m}
                          /\ replies[e][m].text =
                                 <<"*">> \o esc(cs[k].entry.unit) \o <<":", "*", "\n">>
                                     \o esc(cs[k].answer)
                  ELSE RepliesTo(e, k) = {}
            /\ \A m \in HandlerReplies(e) : replies[e][m].after \in 1..Len(cs)
            /\ \A m, n \in 1..Len(replies[e]) :
                  m < n => replies[e][m].after <= replies[e][n].after
\* A handler that did not claim the event is answered under its own label
\* after an earlier handler of another owner was, and the flag stays false.
C6_Witness ==
    \E e \in Slots :
        /\ Returned(e) /\ Len(calls[e]) = 2 /\ Len(replies[e]) = 2
        /\ calls[e][1].entry.unit # calls[e][2].entry.unit
        /\ ~calls[e][2].processed /\ Truthy(calls[e][2].answer)
        /\ ~ev[e].processed_before

\* C7: a file event of the authorized conversation whose attachment cannot
\* be classified ends at once: no handler call, no reply at all, no getFile,
\* no directory creation, no download, no vault lookup.
C7_UnclassifiableIsDropped ==
    \A e \in Slots :
        ev[e].kind = "file" /\ Authorized(e) /\ ev[e].mime_type \in {NoMime, ""} =>
            /\ Returned(e)
            /\ calls[e] = <<>> /\ replies[e] = <<>>
            /\ io[e] = [NoIo EXCEPT !.classify = 1]
\* Such an event is dropped although a wildcard handler is registered.
C7_Witness ==
    \E e \in Slots :
        /\ ev[e].kind = "file" /\ Authorized(e) /\ ev[e].mime_type = NoMime
        /\ Returned(e) /\ Has(file_handlers, "")

\* An event record for which the registries hold no handler.
NoHandlerFor(r) ==
    CASE r.kind = "command" -> Truthy(r.cmd) /\ ~Has(command_handlers, r.cmd)
      [] r.kind = "text"    -> text_handlers = <<>>
      [] r.kind = "file"    -> /\ TruthyMime(r.mime_type)
                               /\ ~Has(file_handlers, r.mime_type)
                               /\ ~Has(file_handlers, "")
      [] OTHER              -> FALSE
\* Activation e has ended without a call, a reply, a download or an error.
EndedSilently(e) ==
    /\ Returned(e)
    /\ calls[e] = <<>> /\ replies[e] = <<>>
    /\ io[e].getFile = 0 /\ io[e].mkdir = 0 /\ io[e].download = 0 /\ io[e].vault = 0

\* C8: an authorized event for which no handler is registered (no chain for
\* the command, no chain for the MIME type and no wildcard chain, an empty
\* text chain) returns without a handler call, a reply or an error: in the
\* step that delivers it, and in every state where still none is registered.
C8_State ==
    \A e \in Slots : Authorized(e) /\ NoHandlerFor(ev[e]) => EndedSilently(e)
C8_Step ==
    \A e \in Slots :
        ( /\ CanStart(e) /\ ev'[e] # ev[e]
          /\ String(ev'[e].chatId) = chat_id
          /\ NoHandlerFor(ev'[e]) ) => EndedSilently(e)'
C8_NoHandlerIsSilent == []C8_State /\ [][C8_Step]_vars
\* The command /b finds no chain while a chain exists for /a.
C8_Witness ==
    \E e \in Slots :
        /\ Authorized(e) /\ ev[e].kind = "command" /\ ev[e].cmd = <<"b">>
        /\ ~Has(command_handlers, <<"b">>) /\ Has(command_handlers, <<"a">>)
        /\ Returned(e)

\* The registries after appending entry x to the chain of key k of one of them.
Appended(m, k, x) ==
    [y \in (DOMAIN m) \cup {k} |->
        IF y = k THEN (IF k \in DOMAIN m THEN m[k] ELSE <<>>) \o <<x>> ELSE m[y]]
\* How often entry x occurs in a sequence of entries or of calls.
Occurrences(seq, x) == Cardinality({k \in 1..Len(seq) : seq[k] = x})
CallsOf(cs, chain, x) == Cardinality({k \in CallsOn(cs, chain) : cs[k].entry = x})

\* C9: a registration call appends exactly its (handler, owner) entry to the
\* end of the chain of its key, creating the chain when absent, and changes
\* nothing else; an entry registered n times under a key is called n times
\* when the loop over that chain runs to its end.
C9_RegisterStep ==
    regs_left' # regs_left =>
        LET x == lastReg'.entry
            k == IF lastReg'.mime_type = NoMime THEN "" ELSE lastReg'.mime_type
        IN  /\ regs_left' = regs_left - 1
            /\ UNCHANGED <<rest, chat_id, ev, calls, replies, io, download_dir_exists, thrown>>
            /\ CASE lastReg'.api = "command" ->
                      /\ command_handlers' = Appended(command_handlers, lastReg'.cmd, x)
                      /\ UNCHANGED <<text_handlers, file_handlers>>
                 [] lastReg'.api = "text" ->
                      /\ text_handlers' = text_handlers \o <<x>>
                      /\ UNCHANGED <<command_handlers, file_handlers>>
                 [] lastReg'.api = "file" ->
                      /\ file_handlers' = Appended(file_handlers, k, x)
                      /\ UNCHANGED <<command_handlers, text_handlers>>
                 [] OTHER -> FALSE
C9_DispatchStep ==
    \A e \in Slots : \A chain \in {"command", "text", "specific", "wildcard"} :
        LeavesChain(e, chain) =>
            \A x \in Consumers :
                CallsOf(calls'[e], chain, x) =
                    Occurrences(Items([ev'[e] EXCEPT !.chain = chain]), x)
C9_RegistrationAppends == [][C9_RegisterStep /\ C9_DispatchStep]_vars
\* An entry registered twice under one command was called twice for an event.
C9_Witness ==
    \E e \in Slots :
        /\ Returned(e) /\ ev[e].kind = "command" /\ Len(calls[e]) = 2
        /\ calls[e][1].entry = calls[e][2].entry
        /\ lastReg.api = "command" /\ lastReg.entry = calls[e][1].entry
        /\ command_handlers[ev[e].cmd] = <<lastReg.entry, lastReg.entry>>

\* C10: addFileHandler without a mimeType registers under the wildcard key;
\* a file event that is materialized and runs to its end has called the whole
\* wildcard chain whatever its MIME type, and besides it only entries of the
\* chain registered under exactly its own MIME type.
C10_RegisterStep ==
    regs_left' # regs_left /\ lastReg'.api = "file" /\ lastReg'.mime_type = NoMime =>
        /\ Has(file_handlers', "")
        /\ file_handlers'[""] =
              (IF Has(file_handlers, "") THEN file_handlers[""] ELSE <<>>)
                  \o <<lastReg'.entry>>
        /\ \A k \in DOMAIN file_handlers' :
              k # "" => Has(file_handlers, k) /\ file_handlers'[k] = file_handlers[k]
C10_DeliverStep ==
    \A e \in Slots :
        CanStart(e) /\ ev'[e] # ev[e] /\ ev'[e].kind = "file" /\ ev'[e].pc # "done" =>
            /\ ev'[e].all_present = Has(file_handlers, "")
            /\ ev'[e].specific_present = Has(file_handlers, ev'[e].mime_type)
C10_ReturnStep ==
    \A e \in Slots :
        ev'[e] # ev[e] /\ ev'[e].kind = "file" /\ Returned(e)' /\ io'[e].vault = 1 =>
            LET cs == calls'[e]
                mime == ev'[e].mime_type
                wc == CallsOn(cs, "wildcard")
                sp == CallsOn(cs, "specific")
            IN  /\ wc \cup sp = 1..Len(cs)
                /\ IF ev'[e].all_present
                   THEN /\ Cardinality(wc) = Len(file_handlers[""])
                        /\ \A k \in wc : cs[k].entry = file_handlers[""][cs[k].i + 1]
                   ELSE wc = {}
                /\ IF Has(file_handlers, mime)
                   THEN /\ Cardinality(sp) <= Len(file_handlers[mime])
                        /\ \A k \in sp : cs[k].entry = file_handlers[mime][cs[k].i + 1]
                   ELSE sp = {}
C10_WildcardAndSpecificKeys ==
    [][C10_RegisterStep /\ C10_DeliverStep /\ C10_ReturnStep]_vars
\* A video/mp4 file reached the handler registered without a mimeType, and
\* only it, while another handler is registered for image/jpeg.
C10_Witness ==
    \E e \in Slots :
        /\ ev[e].kind = "file" /\ ev[e].mime_type = MimeMp4 /\ Returned(e)
        /\ Len(calls[e]) = 1 /\ calls[e][1].chain = "wildcard"
        /\ Has(file_handlers, MimeJpeg) /\ Has(file_handlers, "")
        /\ lastReg.api = "file" /\ lastReg.mime_type = NoMime
        /\ calls[e][1].entry = lastReg.entry

\* The chains a suspended activation holds a reference to.
HeldChains(r) ==
    CASE r.kind = "command" -> IF r.chain = "command" THEN {"command"} ELSE {}
      [] r.kind = "text"    -> IF r.chain = "text" THEN {"text"} ELSE {}
      [] r.kind = "file"    -> (IF r.specific_present THEN {"specific"} ELSE {})
                                 \cup (IF r.all_present THEN {"wildcard"} ELSE {})
      [] OTHER              -> {}
Suspended(e) == ev[e].pc \in {"handler", "getFile", "download"}

\* C11: a registration that runs while a dispatch is suspended leaves the
\* dispatch as it was (it does not throw); every chain the dispatch holds is
\* afterwards either what it was or that with the whole new entry at its end,
\* so the calls already made still are the chain's first entries; and when
\* the loop leaves a chain, every entry of it was called exactly once.
C11_RegisterStep ==
    regs_left' # regs_left =>
        \A e \in Slots :
            Suspended(e) =>
                /\ ev'[e] = ev[e] /\ calls'[e] = calls[e] /\ replies'[e] = replies[e]
                /\ \A chain \in HeldChains(ev[e]) :
                      LET before == Items([ev[e] EXCEPT !.chain = chain])
                          after == Items([ev[e] EXCEPT !.chain = chain])'
                      IN  /\ after \in {before, before \o <<lastReg'.entry>>}
                          /\ \A k \in CallsOn(calls[e], chain) :
                                calls[e][k].entry = after[calls[e][k].i + 1]
C11_LeaveStep ==
    \A e \in Slots : \A chain \in {"command", "text", "specific", "wildcard"} :
        LeavesChain(e, chain) =>
            LET items == Items([ev'[e] EXCEPT !.chain = chain])
                cs == calls'[e]
            IN  \A j \in 1..Len(items) :
                    Cardinality({k \in CallsOn(cs, chain) :
                                    cs[k].i = j - 1 /\ cs[k].entry = items[j]}) = 1
C12_DistinctPathsDistinctNames ==
    ( /\ output # <<>>
      /\ input.stamp1 = input.stamp2
      /\ input.path1 # Undefined /\ input.path2 # Undefined
      /\ input.path1 # input.path2 ) =>
        output[1].name1 # output[1].name2 /\ output[1].handle1 # output[1].handle2

\* The punctuation set of the escaping rule.
PunctuationSet == {"_", "*", "[", "]", "(", ")", "~", Grave, ">", "#", "+", "-",
                   "=", "|", "{", "}", ".", "!"}
\* Where the j-th character of text stands once every punctuation character
\* up to it has one character put before it.
PlaceOf(text, j) == j + Cardinality({k \in 1..j : text[k] \in PunctuationSet})
\* out is text with exactly one backslash before each punctuation character.
EscapedFrom(text, out) ==
    /\ Len(out) = PlaceOf(text, Len(text))
    /\ \A j \in 1..Len(text) :
          /\ out[PlaceOf(text, j)] = text[j]
          /\ text[j] \in PunctuationSet => out[PlaceOf(text, j) - 1] = "\\"

\* C13: esc puts exactly one backslash before every character of the
\* punctuation set and leaves the other characters as and where they are;
\* escaping the result again puts one more backslash before every
\* punctuation character, so the result changes whenever there is one.
C13_EscapesEachOnce ==
    /\ Len(output) >= 1 => EscapedFrom(input, output[1])
    /\ Len(output) = 2 =>
          /\ EscapedFrom(output[1], output[2])
          /\ Len(output[2]) - Len(output[1]) = Len(output[1]) - Len(input)
          /\ (output[2] = output[1]) = (\A k \in 1..Len(input) : input[k] \notin PunctuationSet)
\* A text with a letter, with two punctuation characters next to each other
\* and with a backslash already in it was escaped twice.
C13_Witness ==
    /\ input \in {<<"_", "!">>, <<"a", Grave>>, <<"\\", ".">>}
    /\ Len(output) = 2 /\ Len(output[2]) > Len(output[1])

\* C14: at every reply site the text sent is  * label : * newline body  with
\* the label being the owner label escaped once and the body the answer
\* escaped once.
C14_LabelAndAnswerEscaped ==
    output # <<>> =>
        LET out == output[1]
            n == PlaceOf(input.unit, Len(input.unit))
        IN  /\ Len(out) >= n + 4
            /\ out[1] = "*"
            /\ EscapedFrom(input.unit, SubSeq(out, 2, n + 1))
            /\ SubSeq(out, n + 2, n + 4) = <<":", "*", "\n">>
            /\ EscapedFrom(input.answer, SubSeq(out, n + 5, Len(out)))

\* The text after the first character of a message text.
AfterMarker(text) == [k \in 1..(Len(text) - 1) |-> text[k + 1]]

\* C15: an authorized command event runs the chain registered under name c
\* exactly when its whole text after the first character is c, compared as
\* it stands; when that text is no registered name the event ends without a
\* call or a reply, and every call made is an entry of the chain of that name.
C15_State ==
    \A e \in Slots :
        ev[e].kind = "command" /\ Authorized(e) /\ calls[e] # <<>> =>
            /\ ev[e].text # Undefined
            /\ Has(command_handlers, AfterMarker(ev[e].text))
            /\ \A k \in 1..Len(calls[e]) :
                  calls[e][k].entry =
                      command_handlers[AfterMarker(ev[e].text)][calls[e][k].i + 1]
C15_Step ==
    \A e \in Slots :
        ( /\ CanStart(e) /\ ev'[e] # ev[e]
          /\ ev'[e].kind = "command" /\ String(ev'[e].chatId) = chat_id ) =>
            LET text == ev'[e].text
                named == {c \in DOMAIN command_handlers :
                             text # Undefined /\ AfterMarker(text) = c}
            IN  /\ \A c \in DOMAIN command_handlers :
                      (ev'[e].chain = "command" /\ ev'[e].cmd = c /\ calls'[e] # <<>>)
                          <=> c \in named
                /\ named = {} => EndedSilently(e)'
Priority == <<"document", "animation", "audio", "photo", "video", "voice", "video_note">>

\* C16: the classifier answers for the first kind present in the priority
\* order alone: image/jpeg for a photo, video/mp4 for a video note, the
\* provider's MIME string for the others, and unclassifiable when that string
\* is absent (whatever lower kinds are present) or when no kind is present.
C16_FirstPresentKindDecides ==
    output # <<>> =>
        LET present == {k \in 1..Len(Priority) : input[Priority[k]] # Absent}
        IN  IF present = {} THEN output[1] = "undefined"
            ELSE LET kind == Priority[CHOOSE k \in present : \A j \in present : k <= j]
                 IN  output[1] = CASE kind = "photo" -> "image/jpeg"
                                   [] kind = "video_note" -> "video/mp4"
                                   [] OTHER -> input[kind]
\* A document without a MIME string hides a photo and a video with one.
C16_Witness ==
    /\ output = <<"undefined">>
    /\ input.document = NoMime /\ input.photo # Absent /\ input.video = "audio/ogg"

\* C17: every send of a sendMessage call goes to the configured conversation
\* with the escaped text; a second send is made only after the first one
\* failed, so a call whose first send succeeds has sent once; the call
\* resolves when a send succeeded and rejects when every send failed.
C17_SendOnceThenFallback ==
    LET sent == send.sent
    IN  /\ Len(sent) <= 2
        /\ \A k \in 1..Len(sent) :
              /\ sent[k].chat_id = chat_id
              /\ EscapedFrom(send.text, sent[k].text)
              /\ k < Len(sent) => sent[k].status = "failed"
        /\ send.pc = "done" =>
              /\ send.outcome = "resolved" =>
                    Cardinality({k \in 1..Len(sent) : sent[k].status = "sent"}) = 1
              /\ send.outcome = "rejected" =>
                    \A k \in 1..Len(sent) : sent[k].status = "failed"
              /\ send.outcome \in {"resolved", "rejected"}
              /\ sent[1].status = "sent" => Len(sent) = 1
              /\ input = "main.ts" /\ sent[1].status = "failed" =>
                    Len(sent) = 2 /\ sent[2].via = "grammy"
\* Both transports failed for a text that needed escaping, and the call
\* rejected.
C17_Witness ==
    /\ send.pc = "done" /\ send.outcome = "rejected"
    /\ Len(send.sent) = 2 /\ send.sent[1].via = "node" /\ send.sent[2].via = "grammy"
    /\ send.text = <<"a", "!">> /\ chat_id = "1"

\* The entries a registry holds, over all its chains.
RECURSIVE SumOver(_, _)
SumOver(f, keys) ==
    IF keys = {} THEN 0
    ELSE LET k == CHOOSE x \in keys : TRUE
         IN  Len(f[k]) + SumOver(f, keys \ {k})
EntriesOf(reg) ==
    SumOver(reg.command, DOMAIN reg.command) + Len(reg.text)
        + SumOver(reg.file, DOMAIN reg.file)
RECURSIVE RetiredEntries(_)
RetiredEntries(g) == IF g = 0 THEN 0 ELSE EntriesOf(retired[g]) + RetiredEntries(g - 1)

\* C18: constructing a new adapter leaves it with three empty registries and
\* leaves the old ones to the old adapter; every registration is held by the
\* one adapter it was made on; an event is dispatched by the adapter current
\* when it arrives and calls entries of that adapter's registries only.
C18_State ==
    /\ Len(retired) = generation - 1
    /\ EntriesOf(RegistryOf(generation)) + RetiredEntries(generation - 1)
          = MaxRegs - regs_left
    /\ \A e \in Slots : \A k \in 1..Len(calls[e]) :
          LET r == ev[e]
              own == IF r.api = generation
                     THEN [command |-> command_handlers, text |-> text_handlers,
                           file |-> file_handlers]
                     ELSE retired[r.api]
              items == CASE calls[e][k].chain = "command"  -> own.command[r.cmd]
                         [] calls[e][k].chain = "text"     -> own.text
                         [] calls[e][k].chain = "specific" -> own.file[r.mime_type]
                         [] calls[e][k].chain = "wildcard" -> own.file[""]
          IN  /\ calls[e][k].i < Len(items)
              /\ calls[e][k].entry = items[calls[e][k].i + 1]
C18_Step ==
    /\ generation' # generation =>
          /\ generation' = generation + 1
          /\ command_handlers' = EmptyMap /\ text_handlers' = <<>>
          /\ file_handlers' = EmptyMap
          /\ retired' = retired \o <<[command |-> command_handlers,
                                      text |-> text_handlers, file |-> file_handlers]>>
          /\ UNCHANGED <<ev, calls, replies>>
    /\ \A e \in Slots :
          CanStart(e) /\ ev'[e] # ev[e] => ev'[e].api = generation
C18_RegistrationsEndWithAdapter == []C18_State /\ [][C18_Step]_vars
\* A text handler registered before the reset stayed with the old adapter; a
\* text event after the reset called only the handler registered after it.
C18_Witness ==
    \E e \in Slots :
        /\ generation = 2 /\ Len(retired[1].text) = 1
        /\ ev[e].kind = "text" /\ ev[e].api = 2 /\ Returned(e)
        /\ Len(calls[e]) = 1 /\ calls[e][1].entry # retired[1].text[1]

\* The handler awaited for the first event never settles.
Hung == ev["e1"].pc = "handler"
\* The second event has ended; if it returned, every chain it held was called
\* to its end and every answer was replied to.
EndedInFull(e) ==
    /\ ev[e].pc = "done"
    /\ Returned(e) =>
          /\ \A chain \in HeldChains(ev[e]) :
                Cardinality(CallsOn(calls[e], chain)) = Len(ChainOf(e, chain))
          /\ \A k \in 1..Len(calls[e]) :
                /\ calls[e][k].status = "returned"
                /\ Cardinality(RepliesTo(e, k)) =
                       IF Truthy(calls[e][k].answer) THEN 1 ELSE 0

\* C19: while the handler of one event never returns, a registration call can
\* still be made and another event can still be delivered, and an event that
\* is being dispatched meanwhile comes to its end, with its whole chain
\* called and its answers replied to when it returns.
C19_Open ==
    Hung =>
        /\ regs_left > 0 => ENABLED Register
        /\ CanStart("e2") => ENABLED Deliver("e2")
C19_HungHandlerStallsOnlyItself ==
    /\ []C19_Open
    /\ (Hung /\ ev["e2"].pc \notin {"idle", "done"}) ~> (Hung /\ EndedInFull("e2"))
\* With the first text event stuck in its handler, a second text event ran
\* the same chain to its end and got both its replies.
C19_Witness ==
    /\ Hung /\ ev["e1"].kind = "text" /\ Len(calls["e1"]) = 1
    /\ ev["e2"].kind = "text" /\ Returned("e2")
    /\ Len(calls["e2"]) = 2 /\ Len(replies["e2"]) = 2

\* The download of activation e has failed; the vault did not find its file.
DownloadFailed(e) ==
    ev[e].kind = "file" /\ io[e].download = 1 /\ io[e].vault = 0 /\ ev[e].pc # "download"
LookupMissed(e) == ev[e].kind = "file" /\ io[e].found = "missing"

\* C20: a file event whose download fails, or whose downloaded file the vault
\* does not find, calls no handler of either chain, is not downloaded or
\* looked up a second time, and ends in the catch block with the generic
\* error reply as its only reply.
C20_State ==
    \A e \in Slots :
        DownloadFailed(e) \/ LookupMissed(e) =>
            /\ calls[e] = <<>>
            /\ replies[e] = <<[text |-> InternalError, after |-> 0,
                               status |-> "awaited"]>>
            /\ InCatch(e)
            /\ io[e].getFile = 1 /\ io[e].download = 1
            /\ io[e].vault = IF LookupMissed(e) THEN 1 ELSE 0
C20_Step ==
    \A e \in Slots :
        (DownloadFailed(e) \/ LookupMissed(e)) /\ ~CanStart(e) /\ ev'[e] # ev[e] =>
            /\ io'[e] = io[e] /\ calls'[e] = <<>> /\ replies'[e] = replies[e]
            /\ ev'[e].pc = "done"
C20_FailedMaterialization == []C20_State /\ [][C20_Step]_vars
\* The vault missed the downloaded file of an event for which a wildcard
\* handler and a handler of its MIME type are registered.
C20_Witness ==
    \E e \in Slots :
        /\ LookupMissed(e) /\ ev[e].outcome = "caught"
        /\ ev[e].specific_present /\ ev[e].all_present

\* ---- C21: a failed send of a handler's reply reaches the catch block ----
\* C21: whenever the send of a handler's reply has failed, the event is in (or
\* has been through) its catch block: the internal-error reply has been issued
\* and no handler was invoked after the one whose reply failed.
C21_ReplyFailureIsCaught ==
    \A e \in Slots : \A k \in HandlerReplies(e) :
        replies[e][k].status = "failed" =>
            /\ InCatch(e)
            /\ ErrorReplies(e) # {}
            /\ Len(calls[e]) = replies[e][k].after

\* ---- C22: nothing is thrown out of an event callback ----
\* C22: no activation of an event callback ends by throwing: whatever failed
\* while the event was processed, the callback's promise does not reject.
C22_CallbackNeverThrows ==
    \A e \in Slots : ev[e].outcome # "escaped"

\* ---- C23: a throw ends the event's dispatch ----
ThrewAt(e) == {k \in 1..Len(calls[e]) : calls[e][k].status = "threw"}

\* The call that threw is the last call of its event (so no later entry of the
\* chain, and no entry of the wildcard chain after a throw in the specific
\* one, was invoked); every handler reply belongs to an earlier call and the
\* last reply is the internal-error one.
C23_State ==
    \A e \in Slots : \A k \in ThrewAt(e) :
        /\ k = Len(calls[e])
        /\ \A m \in HandlerReplies(e) : replies[e][m].after < k
        /\ replies[e] # <<>> /\ replies[e][Len(replies[e])].text = InternalError
        /\ calls[e][k].chain = "specific" => CallsOn(calls[e], "wildcard") = {}

\* Once a handler has thrown, the event makes no call and issues no reply.
C23_Step ==
    \A e \in Slots :
        ThrewAt(e) # {} /\ ~(CanStart(e) /\ ev'[e] # ev[e]) =>
            /\ calls'[e] = calls[e]
            /\ Len(replies'[e]) = Len(replies[e])

\* C23: when handler k of an event throws, no handler after k is invoked for
\* that event and no handler reply is issued after the failure; a throw in the
\* specific-MIME chain of a file event keeps the wildcard chain from running.
C23_ThrowEndsTheDispatch == []C23_State /\ [][C23_Step]_vars

\* A file event with both chains present whose specific chain threw and whose
\* callback has ended with the wildcard entry never invoked.
C23_Witness ==
    LET e == "e1"
    IN  /\ ev[e].pc = "done" /\ ev[e].kind = "file"
        /\ ThrewAt(e) = {1} /\ calls[e][1].chain = "specific"
        /\ ev[e].all_present /\ Len(ChainOf(e, "wildcard")) = 1

\* ---- C24: which chains a file event runs, and with what file ----
\* A file event that got as far as looking up its chains.
LookedUp(e) ==
    /\ ev[e].kind = "file" /\ Authorized(e) /\ TruthyMime(ev[e].mime_type)
    /\ ev[e].api = generation

\* The chains found at lookup time.
PresentChains(e) ==
    (IF ev[e].specific_present THEN {"specific"} ELSE {})
        \cup (IF ev[e].all_present THEN {"wildcard"} ELSE {})

\* C24: a file event calls handlers of the chains that existed at lookup time
\* only, and of each of them by the time it returns; its first call gets
\* processed_before = FALSE; with no chain it ends at once without fetching
\* or downloading anything; it asks for the file, downloads it and looks it
\* up at most once, and every call of either chain gets the handle of that
\* one lookup.
C24_FileChainsAndOneDownload ==
    \A e \in Slots :
        LookedUp(e) =>
            /\ io[e].getFile <= 1 /\ io[e].download <= 1 /\ io[e].vault <= 1
            /\ \A k \in 1..Len(calls[e]) :
                  /\ calls[e][k].chain \in PresentChains(e)
                  /\ calls[e][k].file = 1 /\ io[e].vault = 1 /\ io[e].download = 1
            /\ calls[e] # <<>> => ~calls[e][1].processed_before
            /\ PresentChains(e) = {} =>
                  /\ Returned(e) /\ calls[e] = <<>> /\ replies[e] = <<>>
                  /\ io[e].getFile = 0 /\ io[e].download = 0 /\ io[e].vault = 0
            /\ Returned(e) /\ PresentChains(e) # {} =>
                  {calls[e][k].chain : k \in 1..Len(calls[e])} = PresentChains(e)

\* A file event that ran a specific and a wildcard handler on one download.
C24_Witness ==
    LET e == "e1"
    IN  /\ LookedUp(e) /\ Returned(e)
        /\ Len(calls[e]) = 2
        /\ calls[e][1].chain = "specific" /\ calls[e][2].chain = "wildcard"
        /\ calls[e][1].file = calls[e][2].file
        /\ io[e].download = 1

\* ---- C25: dispatching leaves the registry alone ----
IsPrefix(a, b) == Len(a) <= Len(b) /\ SubSeq(b, 1, Len(a)) = a
\* Every chain of map m is still there in map n, extended at its end at most.
GrowsOnly(m, n) ==
    \A k \in DOMAIN m : k \in DOMAIN n /\ IsPrefix(m[k], n[k])

\* The chains hold as many entries as registration calls were made.
C25_State ==
    EntriesOf(RegistryOf(generation)) = MaxRegs - regs_left

\* A step that is not a registration call leaves the three registries as
\* they are; a registration call extends chains at their end only.
C25_Step ==
    /\ regs_left' = regs_left => UNCHANGED registry
    /\ GrowsOnly(command_handlers, command_handlers')
    /\ GrowsOnly(file_handlers, file_handlers')
    /\ IsPrefix(text_handlers, text_handlers')

\* C25: under any interleaving of two concurrently processed events, failing
\* ones included, the steps of the callbacks never change a registry; chains
\* only grow, by the entries the registration calls append, and no entry is
\* removed, replaced or moved.
C25_DispatchKeepsRegistry == []C25_State /\ [][C25_Step]_vars

\* Two events in flight at once over a full registry, one of them in its
\* catch block after a throw, the other at its second handler.
C25_Witness ==
    /\ regs_left = 0
    /\ ev["e1"].pc = "errReply" /\ ThrewAt("e1") # {}
    /\ ev["e2"].pc = "handler" /\ Len(calls["e2"]) = 2

\* ---- C30: the accumulated flag belongs to one event ----
\* Every call of an event got the disjunction of the processed values of the
\* earlier calls of the same event, the first call FALSE.
C30_State ==
    \A e \in Slots : \A k \in 1..Len(calls[e]) :
        calls[e][k].processed_before =
            (\E j \in 1..(k - 1) : calls[e][j].processed)

\* A step of one event changes neither the locals nor the calls of another.
C30_Step ==
    \A e \in Slots :
        ev'[e] # ev[e] =>
            \A o \in Slots \ {e} : ev'[o] = ev[o] /\ calls'[o] = calls[o]

\* C30: every event starts its chain with processed_before = FALSE, and under
\* any interleaving of two events a processed = TRUE returned for one of them
\* never shows in the processed_before another event's handlers are given.
C30_FlagIsPerEvent == []C30_State /\ [][C30_Step]_vars

\* Both events are at the second handler of the same chain, one having been
\* claimed by the first handler and the other not.
C30_Witness ==
    /\ ev["e1"].pc = "handler" /\ ev["e2"].pc = "handler"
    /\ ev["e1"].chain = ev["e2"].chain /\ ev["e1"].cmd = ev["e2"].cmd
    /\ Len(calls["e1"]) = 2 /\ Len(calls["e2"]) = 2
    /\ calls["e1"][1].processed /\ calls["e1"][2].processed_before
    /\ ~calls["e2"][1].processed /\ ~calls["e2"][2].processed_before

\* ---- C26: the loops walk the live chain ----
\* The chain of activation r that a registration call extends while r still
\* has its loop over that chain ahead of it or under way ("none" otherwise).
TargetChain(r, reg) ==
    CASE reg.api = "command" /\ r.chain = "command" /\ reg.cmd = r.cmd -> "command"
      [] reg.api = "text" /\ r.chain = "text" -> "text"
      [] reg.api = "file" /\ r.kind = "file" /\ r.specific_present
            /\ r.chain # "wildcard" /\ FileKey(reg.mime_type) = r.mime_type -> "specific"
      [] reg.api = "file" /\ r.kind = "file" /\ r.all_present
            /\ FileKey(reg.mime_type) = "" -> "wildcard"
      [] OTHER -> "none"

\* A registration under the key of a chain a suspended activation holds puts
\* its entry at the end of that very chain, behind every index the loop has
\* used so far.
C26_AppendStep ==
    regs_left' # regs_left =>
        \A e \in Slots : \A c \in {"command", "text", "specific", "wildcard"} :
            LET before == Items([ev[e] EXCEPT !.chain = c])
                after == Items([ev[e] EXCEPT !.chain = c])'
            IN  Suspended(e) /\ c = TargetChain(ev[e], lastReg') =>
                    /\ after = before \o <<lastReg'.entry>>
                    /\ \A k \in CallsOn(calls[e], c) : calls[e][k].i < Len(before)

\* When the loop leaves a chain, its calls are the entries the chain has by
\* then, in the chain's order, the latest call being the chain's last entry.
C26_LeaveStep ==
    \A e \in Slots : \A chain \in {"command", "text", "specific", "wildcard"} :
        LeavesChain(e, chain) =>
            LET items == Items([ev'[e] EXCEPT !.chain = chain])
                on == CallsOn(calls'[e], chain)
            IN  /\ Cardinality(on) = Len(items)
                /\ \A k \in on : calls'[e][k].entry = items[calls'[e][k].i + 1]
                /\ \A j, k \in on : j < k => calls'[e][j].i < calls'[e][k].i

\* A file event calls no handler of a chain it did not find at its lookup,
\* whether or not the key has a chain by now: in particular none of a chain
\* that the latest registration created while the event was suspended.
C26_State ==
    \A e \in Slots :
        /\ \A k \in 1..Len(calls[e]) :
              /\ calls[e][k].chain = "specific" => ev[e].specific_present
              /\ calls[e][k].chain = "wildcard" => ev[e].all_present
        /\ e \in lastReg.during /\ ev[e].kind = "file" /\ lastReg.api = "file" =>
              LET key == FileKey(lastReg.mime_type)
              IN  Len(file_handlers[key]) = 1 =>
                      /\ key = "" => CallsOn(calls[e], "wildcard") = {}
                      /\ key = ev[e].mime_type => CallsOn(calls[e], "specific") = {}

\* C26: an entry appended to a chain while a dispatch over that chain is
\* suspended is called for the event in flight, after the earlier entries;
\* a file chain created after the event's lookup is not called for it.
C26_LiveChainNotSnapshot == []C26_State /\ [][C26_AppendStep /\ C26_LeaveStep]_vars

\* The second entry of the chain was registered while the only activation
\* was suspended, and was called second before the callback returned.
C26_Witness ==
    LET e == "e1"
    IN  /\ Returned(e) /\ e \in lastReg.during
        /\ TargetChain([ev[e] EXCEPT !.chain = "text"], lastReg) = "text"
        /\ Len(text_handlers) = 2 /\ Len(calls[e]) = 2
        /\ calls[e][2].entry = lastReg.entry /\ calls[e][2].i = 1

\* ---- C27: the dispatch of one event terminates ----
\* C27 as stated: whenever every handler invocation returns, the loop over
\* the chain completes, also when the handlers register further handlers
\* under the key of the chain while they run.
C27_DispatchTerminates == <>(walk.pc = "done")

\* C27, amended: whenever every handler invocation returns, the loop
\* completes unless entries keep being registered, for ever, under the key
\* of a chain it has still to finish.
C27_TerminatesUnlessChainGrows ==
    ([]<><<WalkRegisters>>_vars) \/ <>(walk.pc = "done")

\* A loop that completed although a handler had lengthened its chain.
C27_Witness == walk.pc = "done" /\ walk.grown

\* ---- C28: first contact sets the authorized identity once ----
\* A /start callback replies to the conversation the settings hold and to no
\* other.
C28_State ==
    \A s \in Slots :
        start[s].replies # <<>> => String(start[s].chatId) = settings_chatId

\* The stored id changes only from empty, to the id of the conversation whose
\* /start callback is then waiting for the settings to be saved.
C28_Step ==
    /\ settings_chatId # "" => settings_chatId' = settings_chatId
    /\ settings_chatId' # settings_chatId =>
          \E s \in Slots :
              /\ start'[s].pc = "saving"
              /\ settings_chatId' = String(start'[s].chatId)

\* C28: /start stores the conversation's id only when the stored id is empty;
\* a non-empty stored id is never changed, a /start from another conversation
\* gets no reply, and under any interleaving of /start callbacks at most one
\* conversation becomes the authorized identity.
C28_FirstContactOnly == []C28_State /\ [][C28_Step]_vars

\* While the first conversation's /start waits for the settings to be saved,
\* the /start of a second conversation has come and gone unanswered.
C28_Witness ==
    /\ start["e1"].pc = "saving" /\ start["e1"].chatId = 1
    /\ start["e2"].pc = "done" /\ start["e2"].chatId = 2
    /\ start["e2"].replies = <<>>
    /\ settings_chatId = "1"

\* ---- C29: the adapter's authorized identity is fixed at construction ----
\* An event the running adapter got from a conversation other than the one
\* it was constructed with ended silently, whatever the settings hold; a file
\* event from its own conversation got as far as the classifier.
C29_State ==
    \A e \in Slots :
        ev[e].kind # "none" /\ ev[e].api = generation =>
            IF String(ev[e].chatId) # chat_id
            THEN /\ Returned(e)
                 /\ calls[e] = <<>> /\ replies[e] = <<>> /\ io[e] = NoIo
            ELSE ev[e].kind = "file" => io[e].classify = 1

\* _chat_id changes only when resetBot constructs a new adapter, which gets
\* the id the settings hold then.
C29_Step ==
    /\ generation' = generation => chat_id' = chat_id
    /\ generation' # generation => chat_id' = settings_chatId

\* C29: the identity the dispatch guard compares with is the one the adapter
\* was constructed with: after a first-contact /start has stored a
\* conversation's id, the running adapter still ends that conversation's
\* events silently, until resetBot constructs a new adapter with the stored id.
C29_IdentityFixedAtConstruction == []C29_State /\ [][C29_Step]_vars

\* The first adapter, constructed unconfigured, has ended a text message of
\* the conversation that /start has made the stored identity, with a text
\* handler registered.
C29_Witness ==
    /\ generation = 1 /\ chat_id = "" /\ settings_chatId = "1"
    /\ start["e1"].replies = <<ReadyToWork>>
    /\ ev["e1"].kind = "text" /\ ev["e1"].chatId = 1 /\ ev["e1"].api = 1
    /\ Returned("e1") /\ calls["e1"] = <<>> /\ replies["e1"] = <<>>
    /\ text_handlers # <<>>
\* ------------------------------------------------------------ C31
\* What holds of a call of resetBot wherever it is suspended: it has called
\* start at most maxRetries times; a pending start is one more than the 409
\* failures so far, of which there are fewer than maxRetries; the delay before
\* a retry is awaited only after a 409 and with fewer than maxRetries
\* failures; a call that failed after a start did so on an error other than
\* 409 or on the last 409, and has called shutdownBot a second time.
C31_State ==
    \A r \in Slots :
        LET x == life.reset[r]
        IN  /\ x.starts <= maxRetries
            /\ x.pc = "start" =>
                   /\ x.starts = x.retryCount + 1
                   /\ x.retryCount < maxRetries
            /\ x.pc = "backoff" =>
                   /\ x.last = "409"
                   /\ x.starts = x.retryCount
                   /\ x.retryCount < maxRetries
            /\ (x.outcome = "failed" /\ x.starts > 0) =>
                   /\ x.last = "other" \/ (x.last = "409" /\ x.retryCount = maxRetries)
                   /\ x.shutdowns = 2

\* What holds of each step of a call: start is called again only out of the
\* delay that follows a 409; a start that fails on any other error, or on the
\* 409 that brings the failures to maxRetries, ends the call at once, with no
\* further start and with one more call of shutdownBot.
C31_Step ==
    \A r \in Slots :
        LET x == life.reset[r]
            y == life'.reset[r]
        IN  /\ (x.starts > 0 /\ y.starts > x.starts) =>
                   /\ x.pc = "backoff"
                   /\ x.last = "409"
                   /\ x.retryCount < maxRetries
            /\ (x.pc = "start" /\ y.pc # "start"
                    /\ (y.last = "other"
                           \/ (y.last = "409" /\ y.retryCount = maxRetries))) =>
                   /\ y.pc = "done"
                   /\ y.outcome = "failed"
                   /\ y.starts = x.starts
                   /\ y.shutdowns = x.shutdowns + 1

RunningBots == {b \in 1..Len(life.bots) : isRunning(life, b)}

\* C32: after any sequence of resetBot calls, overlapping ones included, at
\* most one bot instance is running, and it is the one this._bot references
\* (so that shutdownBot / onunload stops every running instance).
C32_OneRunningAndReferenced ==
    /\ Cardinality(RunningBots) <= 1
    /\ RunningBots \subseteq {life.bot}

====
